---- MODULE Spec2Model ----
(***************************************************************************)
(* Doc-Extract: the field normalization, semantic grouping and claim       *)
(* windowing pipeline (backend/services).  One structuring request is a    *)
(* state machine: the line metadata is standardized, the raw extraction    *)
(* items are normalized to canonical keys, and the normalized fields are   *)
(* grouped and assembled into claims.                                      *)
(*                                                                         *)
(* Python values are encoded as follows.                                   *)
(*   str            a sequence of one-character strings                    *)
(*   Optional[T]    <<>> for None, <<v>> for a value v                     *)
(*   raw line marker  [kind, n, frac, s]: kind "int" (the integer n),      *)
(*                  "float" (integer part n, frac = 1 when the fractional  *)
(*                  part is not zero), "str" (the string s), "other"       *)
(*   dict           a sequence of [key, list] entries in insertion order,  *)
(*                  or a function when the order is never observed         *)
(***************************************************************************)
EXTENDS Integers, Sequences, FiniteSets, TLC

VARIABLES
    pc,                     \* position in LLMService.structure_document
    line_metadata,          \* raw per-line position metadata (input)
    raw_fields,             \* raw extraction items (input)
    standardized_metadata,  \* List[Optional[StandardizedMetadata]]
    normalized,             \* normalization_result["normalized"]
    claims,                 \* grouped_data["claims"]
    claim_warnings,         \* grouped_data["_claim_warnings"]
    assignment_traces,      \* grouped_data["_assignment_traces"]
    ignored_lines,          \* grouped_data["_ignored_lines"]
    groups,                 \* grouped_data["groups"], flattened key -> merged value
    unmapped_fields,        \* normalization_result["unmapped_fields"]
    label_collisions,       \* normalization_result["label_collisions"]
    highlight_data,         \* [key, rects] entries in dictionary order
    invalid_refs,           \* diagnostics["invalid_refs"]
    missing_metadata,       \* diagnostics["missing_metadata"]
    field_refs,             \* [key, lines] entries in dictionary order
    report_info,            \* grouped_data["report_info"], key -> value and line refs
    field_confidence,       \* normalization_result["field_confidence"], in tenths
    strict,                 \* config.STRICT_EXTRACTION
    dropped_fields,         \* diagnostics["dropped_fields"]
    source_refs,            \* "_source_refs", path -> lines
    requests,               \* the HTTP requests still to be served, in order
    files,                  \* file_store: suffix -> saved JSON payload
    response,               \* the response to the request served last
    served                  \* the request served last

vars == <<pc, line_metadata, raw_fields, standardized_metadata, normalized,
          claims, claim_warnings, assignment_traces, ignored_lines, groups,
          unmapped_fields, label_collisions, highlight_data, invalid_refs,
          missing_metadata, field_refs, report_info, field_confidence, strict,
          dropped_fields, source_refs, requests, files, response,
          served>>

-----------------------------------------------------------------------------
(* Generic helpers for Python lists, sets and strings.                     *)

None == <<>>

Some(v) == <<v>>

IsNone(o) == o = <<>>

Min(S) == CHOOSE m \in S : \A o \in S : m <= o

Max(S) == CHOOSE m \in S : \A o \in S : m >= o

Abs(a) == IF a < 0 THEN 0 - a ELSE a

Range(s) == {s[i] : i \in 1..Len(s)}

\* A list comprehension, built once: the same list as s, held as a tuple.
List(s) == s \o <<>>

\* sorted(list(set(...))) of integers
SortedSeq(S) ==
    List([p \in 1..Cardinality(S) |->
        CHOOSE v \in S : Cardinality({w \in S : w < v}) = p - 1])

\* The permutation of 1..Len(keys) that Python's stable sorted() applies:
\* ascending key, input order among equal keys.
StableOrder(keys) ==
    LET k == List(keys)
    IN  List([p \in 1..Len(k) |->
            CHOOSE i \in 1..Len(k) :
                Cardinality({j \in 1..Len(k) :
                    k[j] < k[i] \/ (k[j] = k[i] /\ j < i)}) = p - 1])

RECURSIVE Flatten(_)
Flatten(ss) == IF ss = <<>> THEN <<>> ELSE Head(ss) \o Flatten(Tail(ss))

IsSpace(c) == c \in {" ", "\t", "\n"}

RECURSIVE LStrip(_)
LStrip(s) == IF s # <<>> /\ IsSpace(Head(s)) THEN LStrip(Tail(s)) ELSE s

RECURSIVE RStrip(_)
RStrip(s) ==
    IF s # <<>> /\ IsSpace(s[Len(s)]) THEN RStrip(SubSeq(s, 1, Len(s) - 1)) ELSE s

\* str.strip()
Strip(s) == RStrip(LStrip(s))

\* str.startswith
StartsWith(s, p) == Len(p) <= Len(s) /\ SubSeq(s, 1, Len(p)) = p

\* p in s, for strings
Contains(s, p) ==
    \E i \in 0..(Len(s) - Len(p)) : SubSeq(s, i + 1, i + Len(p)) = p

Uppers == <<"A", "B", "C", "D", "E", "F", "G", "H", "I", "J", "K", "L", "M", "N", "O", "P", "Q", "R", "S", "T", "U", "V", "W", "X", "Y", "Z">>

Lowers == <<"a", "b", "c", "d", "e", "f", "g", "h", "i", "j", "k", "l", "m", "n", "o", "p", "q", "r", "s", "t", "u", "v", "w", "x", "y", "z">>

\* The place of c in a list of characters, 0 when it is not in it.
RECURSIVE IndexIn(_, _, _)
IndexIn(c, chars, i) ==
    IF i > Len(chars) THEN 0
    ELSE IF chars[i] = c THEN i ELSE IndexIn(c, chars, i + 1)

ToLower(c) == IF IndexIn(c, Uppers, 1) > 0 THEN Lowers[IndexIn(c, Uppers, 1)] ELSE c

ToUpper(c) == IF IndexIn(c, Lowers, 1) > 0 THEN Uppers[IndexIn(c, Lowers, 1)] ELSE c

DigitChars == {"0", "1", "2", "3", "4", "5", "6", "7", "8", "9"}

HexLetters == {"A", "B", "C", "D", "E", "F"}

\* The value of one digit character in int(); -1 when it is no digit.
DigitVal(c) ==
    CASE c = "0" -> 0 [] c = "1" -> 1 [] c = "2" -> 2 [] c = "3" -> 3
      [] c = "4" -> 4 [] c = "5" -> 5 [] c = "6" -> 6 [] c = "7" -> 7
      [] c = "8" -> 8 [] c = "9" -> 9
      [] c \in {"A", "a"} -> 10 [] c \in {"B", "b"} -> 11
      [] c \in {"C", "c"} -> 12 [] c \in {"D", "d"} -> 13
      [] c \in {"E", "e"} -> 14 [] c \in {"F", "f"} -> 15
      [] OTHER -> 0 - 1

IsDigit(c, base) == DigitVal(c) >= 0 /\ DigitVal(c) < base

\* The digits of an int() literal after sign and prefix: digits with single
\* underscores between them.  <<>> on a ValueError, else <<value>>.
RECURSIVE ParseDigits(_, _, _, _)
ParseDigits(r, base, acc, prevDigit) ==
    IF r = <<>> THEN (IF prevDigit THEN Some(acc) ELSE None)
    ELSE IF IsDigit(Head(r), base)
         THEN ParseDigits(Tail(r), base, acc * base + DigitVal(Head(r)), TRUE)
    ELSE IF Head(r) = "_" /\ prevDigit /\ Len(r) > 1
         THEN ParseDigits(Tail(r), base, acc, FALSE)
    ELSE None

\* The literal after an optional sign
Unsigned(s) == IF s # <<>> /\ Head(s) \in {"-", "+"} THEN Tail(s) ELSE s

\* The literal after the 0x prefix that base 16 allows, and after the one
\* underscore that may follow the prefix
Unprefixed(u, base) ==
    IF base = 16 /\ Len(u) >= 2 /\ u[1] = "0" /\ u[2] \in {"x", "X"}
    THEN (IF Len(u) >= 3 /\ u[3] = "_" THEN SubSeq(u, 4, Len(u))
          ELSE SubSeq(u, 3, Len(u)))
    ELSE u

\* The parsed magnitude r with the sign applied
Signed(neg, r) ==
    IF IsNone(r) THEN None
    ELSE IF neg THEN Some(0 - r[1]) ELSE r

\* int() of a string without surrounding whitespace
PyIntStripped(s, base) ==
    Signed(s # <<>> /\ Head(s) = "-",
           ParseDigits(Unprefixed(Unsigned(s), base), base, 0, FALSE))

\* Python's int(s, base) for base 10 and 16: surrounding whitespace, an
\* optional sign, for base 16 an optional 0x prefix, then the digits.
PyInt(str, base) == PyIntStripped(Strip(str), base)

-----------------------------------------------------------------------------
(* Raw line markers and GroupingService._convert_line_number.              *)

IntMarker(n) == [kind |-> "int", n |-> n, frac |-> 0, s |-> <<>>]

FloatMarker(n, frac) == [kind |-> "float", n |-> n, frac |-> frac, s |-> <<>>]

StrMarker(s) == [kind |-> "str", n |-> 0, frac |-> 0, s |-> s]

\* isinstance(l, int)
IsInt(m) == m.kind = "int"

\* any(c in line_str.upper() for c in "ABCDEF")
LooksHex(s) ==
    \E i \in 1..Len(s) :
        ToUpper(s[i]) \in HexLetters

\* The first conversion of a string marker that applies: the 0x form, the
\* form with a hex letter, the decimal form when it is not negative.
ConvertPick(viaPrefix, viaHex, viaDec) ==
    IF ~IsNone(viaPrefix) THEN viaPrefix
    ELSE IF ~IsNone(viaHex) THEN viaHex
    ELSE IF ~IsNone(viaDec) /\ viaDec[1] >= 0 THEN viaDec
    ELSE None

\* The string branch of _convert_line_number, on the stripped string
ConvertStr(line_str) ==
    ConvertPick(IF StartsWith(line_str, <<"0", "x">>) \/ StartsWith(line_str, <<"0", "X">>)
                THEN PyInt(line_str, 16) ELSE None,
                IF LooksHex(line_str) THEN PyInt(line_str, 16) ELSE None,
                PyInt(line_str, 10))

convert_line_number(line_val) ==
    IF line_val.kind = "int"
    THEN (IF line_val.n >= 0 THEN Some(line_val.n) ELSE None)
    ELSE IF line_val.kind = "float"
    THEN (IF line_val.frac = 0 /\ line_val.n >= 0 THEN Some(line_val.n) ELSE None)
    ELSE IF line_val.kind = "str"
    THEN ConvertStr(Strip(line_val.s))
    ELSE None

\* [c for l in lines if (c := convert(l)) is not None], as a list
ConvertedLines(lines) ==
    Flatten(List([i \in 1..Len(lines) |-> convert_line_number(lines[i])]))

-----------------------------------------------------------------------------
(* MetadataService: line metadata standardization.  A raw entry is         *)
(* [kind |-> "none"] (missing), [kind |-> "list", v |-> numbers],          *)
(* [kind |-> "dict", d |-> key -> Optional scalar] or [kind |-> "other"]   *)
(* (neither a list nor a dict).  A scalar is a number or a text that is no *)
(* number.                                                                 *)

NoMeta == [kind |-> "none", v |-> <<>>]

ListMeta(v) == [kind |-> "list", v |-> v]

\* StandardizedMetadata with x and y exchanged
StandardizedMetadataTransposed(page, x, y, width, height) ==
    [page |-> page, x |-> y, y |-> x, width |-> width, height |-> height]

StandardizedMetadata(page, x, y, width, height) ==
    [page |-> page, x |-> x, y |-> y, width |-> width, height |-> height]

\* A number, and a non-empty text that float() and int() reject
NumVal(n) == [num |-> TRUE, n |-> n]

TextVal == [num |-> FALSE, n |-> 0]

\* The keys _standardize_single reads from a dictionary
MetaKeys == {"page", "p", "x", "left", "y", "top", "width", "w", "height", "h"}

DictMeta(d) == [kind |-> "dict", v |-> <<>>, d |-> d]

OtherMeta == [kind |-> "other", v |-> <<>>]

\* `a or b` on Optional scalars: a when it is truthy (not None, not 0)
PyOr(a, b) == IF ~IsNone(a) /\ (a[1].num => a[1].n # 0) THEN a ELSE b

\* Format 1 after the five lookups: None when a value is missing, is no
\* number, or a dimension is not positive.
StandardizeDict(page, x, y, width, height) ==
    IF IsNone(page) \/ IsNone(x) \/ IsNone(y) \/ IsNone(width) \/ IsNone(height)
    THEN None
    ELSE IF ~page[1].num \/ ~x[1].num \/ ~y[1].num \/ ~width[1].num \/ ~height[1].num
    THEN None
    ELSE IF width[1].n <= 0 \/ height[1].n <= 0 THEN None
    ELSE Some(StandardizedMetadata(page[1].n, x[1].n, y[1].n, width[1].n, height[1].n))

\* standardize_single without max(0, ...) on the legacy top edge
standardize_single_unclamped(meta) ==
    IF meta.kind = "none" THEN None
    ELSE IF meta.kind = "dict"
    THEN \* Format 1: dictionary with page, x, y, width, height or their aliases
         StandardizeDict(PyOr(meta.d["page"], meta.d["p"]),
                         PyOr(meta.d["x"], meta.d["left"]),
                         PyOr(meta.d["y"], meta.d["top"]),
                         PyOr(meta.d["width"], meta.d["w"]),
                         PyOr(meta.d["height"], meta.d["h"]))
    ELSE IF meta.kind = "list" /\ Len(meta.v) >= 5
    THEN \* Format 2: [page, x, y, width, height]
         (IF meta.v[4] <= 0 \/ meta.v[5] <= 0 THEN None
          ELSE Some(StandardizedMetadata(meta.v[1], meta.v[2], meta.v[3],
                                         meta.v[4], meta.v[5])))
    ELSE IF meta.kind = "list" /\ Len(meta.v) >= 4
    THEN \* Format 3 (legacy): [page, base_y, height, page_height]
         (IF meta.v[3] <= 0 \/ meta.v[4] <= 0 THEN None
          ELSE Some(StandardizedMetadata(meta.v[1], 0,
                                         meta.v[2] - meta.v[3],
                                         meta.v[4], meta.v[3])))
    ELSE None

standardize_single(meta) ==
    IF meta.kind = "none" THEN None
    ELSE IF meta.kind = "dict"
    THEN \* Format 1: dictionary with page, x, y, width, height or their aliases
         StandardizeDict(PyOr(meta.d["page"], meta.d["p"]),
                         PyOr(meta.d["x"], meta.d["left"]),
                         PyOr(meta.d["y"], meta.d["top"]),
                         PyOr(meta.d["width"], meta.d["w"]),
                         PyOr(meta.d["height"], meta.d["h"]))
    ELSE IF meta.kind = "list" /\ Len(meta.v) >= 5
    THEN \* Format 2: [page, x, y, width, height]
         (IF meta.v[4] <= 0 \/ meta.v[5] <= 0 THEN None
          ELSE Some(StandardizedMetadata(meta.v[1], meta.v[2], meta.v[3],
                                         meta.v[4], meta.v[5])))
    ELSE IF meta.kind = "list" /\ Len(meta.v) >= 4
    THEN \* Format 3 (legacy): [page, base_y, height, page_height]
         (IF meta.v[3] <= 0 \/ meta.v[4] <= 0 THEN None
          ELSE Some(StandardizedMetadata(meta.v[1], 0,
                                         Max({0, meta.v[2] - meta.v[3]}),
                                         meta.v[4], meta.v[3])))
    ELSE None

\* standardize_metadata on a list: index-aligned, None for invalid entries
standardize_metadata(metadata) ==
    List([i \in 1..Len(metadata) |-> standardize_single(metadata[i])])

\* std[line_num] as Python indexes it: from 0, and from the end when negative
MetaAt(std, line_num) ==
    IF line_num >= 0 THEN std[line_num + 1] ELSE std[Len(std) + line_num + 1]

\* The page of a line when the metadata resolves it, as Optional[int]:
\* `standardized_metadata and line < len(standardized_metadata)` and the
\* entry is not None.
PageOf(std, line_num) ==
    IF Len(std) > 0 /\ line_num < Len(std) /\ ~IsNone(MetaAt(std, line_num))
    THEN Some(MetaAt(std, line_num)[1].page)
    ELSE None

-----------------------------------------------------------------------------
(* normalization_service: label canonicalization by synonym lookup.        *)

\* str.lower()
Lower(s) == List([i \in 1..Len(s) |-> ToLower(s[i])])

\* The index of the first ")" of s, 0 when there is none.
FirstClose(s) ==
    IF \E i \in 1..Len(s) : s[i] = ")"
    THEN Min({i \in 1..Len(s) : s[i] = ")"}) ELSE 0

\* re.sub(r'\([^)]*\)', '', s): each "(" that a ")" follows is removed with
\* everything up to the first ")" after it.
RECURSIVE RemoveParens(_)
RemoveParens(s) ==
    IF s = <<>> THEN <<>>
    ELSE IF Head(s) = "(" /\ FirstClose(s) > 0
         THEN RemoveParens(SubSeq(s, FirstClose(s) + 1, Len(s)))
         ELSE <<Head(s)>> \o RemoveParens(Tail(s))

PunctChars == {":", ";", ".", ",", "-", "_"}

\* re.sub(r'<class>+', ' ', s): every maximal run of the class becomes " ".
RECURSIVE ReplaceRuns(_, _, _)
ReplaceRuns(s, class, inRun) ==
    IF s = <<>> THEN <<>>
    ELSE IF Head(s) \in class
         THEN (IF inRun THEN <<>> ELSE <<" ">>) \o ReplaceRuns(Tail(s), class, TRUE)
         ELSE <<Head(s)>> \o ReplaceRuns(Tail(s), class, FALSE)

WhiteSpace == {" ", "\t", "\n"}

\* re.sub(r'\s+', ' ', s).strip()
CollapseSpaces(s) == Strip(ReplaceRuns(s, WhiteSpace, FALSE))

\* re.sub(r'[:;.,\-_]+', ' ', s).strip()
RemovePunctuation(s) == Strip(ReplaceRuns(s, PunctChars, FALSE))

\* Steps 1-4 of normalize_field_label
CleanLabel(raw_label) ==
    CollapseSpaces(RemovePunctuation(CollapseSpaces(
        Strip(RemoveParens(Strip(Lower(raw_label)))))))

\* The synonym dictionary in insertion order; a key written twice in the
\* source keeps its first position and its last value.
FIELD_SYNONYMS ==
    <<
      [synonym |-> <<"c", "l", "a", "i", "m", " ", "n", "o">>,
       canonical |-> "claimNumber"],
      [synonym |-> <<"c", "l", "a", "i", "m", " ", "#">>,
       canonical |-> "claimNumber"],
      [synonym |-> <<"f", "i", "l", "e", " ", "n", "u", "m", "b", "e", "r">>,
       canonical |-> "claimNumber"],
      [synonym |-> <<"c", "l", "a", "i", "m", " ", "n", "u", "m", "b", "e", "r">>,
       canonical |-> "claimNumber"],
      [synonym |-> <<"p", "o", "l", "i", "c", "y", " ", "n", "o">>,
       canonical |-> "policyNumber"],
      [synonym |-> <<"p", "o", "l", "i", "c", "y", " ", "#">>,
       canonical |-> "policyNumber"],
      [synonym |-> <<"p", "o", "l", "i", "c", "y", " ", "n", "u", "m", "b", "e", "r">>,
       canonical |-> "policyNumberHeader"],
      [synonym |-> <<"c", "l", "a", "i", "m", "a", "n", "t", " ", "n", "a", "m", "e">>,
       canonical |-> "claimant"],
      [synonym |-> <<"i", "n", "j", "u", "r", "e", "d", " ", "w", "o", "r", "k", "e", "r">>,
       canonical |-> "claimant"],
      [synonym |-> <<"c", "l", "a", "i", "m", "a", "n", "t">>,
       canonical |-> "claimant"],
      [synonym |-> <<"l", "o", "s", "s", " ", "d", "a", "t", "e">>,
       canonical |-> "dateOfLoss"],
      [synonym |-> <<"a", "c", "c", "i", "d", "e", "n", "t", " ", "d", "a", "t", "e">>,
       canonical |-> "dateOfLoss"],
      [synonym |-> <<"o", "c", "c", "u", "r", "r", "e", "n", "c", "e", " ", "d", "a", "t", "e">>,
       canonical |-> "dateOfLoss"],
      [synonym |-> <<"d", "a", "t", "e", " ", "o", "f", " ", "l", "o", "s", "s">>,
       canonical |-> "dateOfLoss"],
      [synonym |-> <<"n", "o", "t", "i", "f", "i", "c", "a", "t", "i", "o", "n", " ", "d", "a", "t", "e">>,
       canonical |-> "reportedDate"],
      [synonym |-> <<"d", "a", "t", "e", " ", "r", "e", "p", "o", "r", "t", "e", "d">>,
       canonical |-> "reportedDate"],
      [synonym |-> <<"r", "e", "p", "o", "r", "t", " ", "d", "a", "t", "e">>,
       canonical |-> "runDate"],
      [synonym |-> <<"r", "e", "p", "o", "r", "t", "e", "d", " ", "d", "a", "t", "e">>,
       canonical |-> "reportedDate"],
      [synonym |-> <<"s", "t", "a", "t", "u", "s">>,
       canonical |-> "claimStatus"],
      [synonym |-> <<"o", "p", "e", "n", "/", "c", "l", "o", "s", "e", "d">>,
       canonical |-> "claimStatus"],
      [synonym |-> <<"c", "l", "a", "i", "m", " ", "s", "t", "a", "t", "u", "s">>,
       canonical |-> "claimStatus"],
      [synonym |-> <<"d", "e", "s", "c", "r", "i", "p", "t", "i", "o", "n">>,
       canonical |-> "lossDescription"],
      [synonym |-> <<"a", "c", "c", "i", "d", "e", "n", "t", " ", "d", "e", "s", "c", "r", "i", "p", "t", "i", "o", "n">>,
       canonical |-> "lossDescription"],
      [synonym |-> <<"d", "e", "s", "c">>,
       canonical |-> "lossDescription"],
      [synonym |-> <<"l", "o", "s", "s", " ", "d", "e", "s", "c", "r", "i", "p", "t", "i", "o", "n">>,
       canonical |-> "lossDescription"],
      [synonym |-> <<"c", "o", "v", "e", "r", "a", "g", "e">>,
       canonical |-> "coverageSection"],
      [synonym |-> <<"c", "o", "v", " ", "s", "e", "c", "t", "i", "o", "n">>,
       canonical |-> "coverageSection"],
      [synonym |-> <<"l", "o", "b">>,
       canonical |-> "coverageSection"],
      [synonym |-> <<"d", "i", "v">>,
       canonical |-> "coverageSection"],
      [synonym |-> <<"c", "o", "v", "e", "r", "a", "g", "e", " ", "s", "e", "c", "t", "i", "o", "n">>,
       canonical |-> "coverageSection"],
      [synonym |-> <<"c", "a", "u", "s", "e">>,
       canonical |-> "causeOfLoss"],
      [synonym |-> <<"c", "a", "u", "s", "e", " ", "d", "e", "s", "c", "r", "i", "p", "t", "i", "o", "n">>,
       canonical |-> "causeOfLoss"],
      [synonym |-> <<"i", "n", "j", "u", "r", "y", " ", "c", "o", "d", "e">>,
       canonical |-> "causeOfLoss"],
      [synonym |-> <<"c", "a", "u", "s", "e", " ", "o", "f", " ", "l", "o", "s", "s">>,
       canonical |-> "causeOfLoss"],
      [synonym |-> <<"t", "o", "t", "a", "l", " ", "p", "a", "i", "d">>,
       canonical |-> "totalPaid"],
      [synonym |-> <<"g", "r", "o", "s", "s", " ", "p", "a", "i", "d">>,
       canonical |-> "totalPaid"],
      [synonym |-> <<"t", "o", "t", "a", "l", " ", "g", "r", "o", "s", "s", " ", "i", "n", "c", "u", "r", "r", "e", "d">>,
       canonical |-> "totalPaid"],
      [synonym |-> <<"p", "a", "i", "d", " ", "a", "l", "a", "e">>,
       canonical |-> "paidAlae"],
      [synonym |-> <<"p", "a", "i", "d", " ", "e", "x", "p", "e", "n", "s", "e">>,
       canonical |-> "paidAlae"],
      [synonym |-> <<"l", "e", "g", "a", "l", " ", "p", "a", "i", "d">>,
       canonical |-> "paidAlae"],
      [synonym |-> <<"t", "o", "t", "a", "l", " ", "i", "n", "c", "u", "r", "r", "e", "d">>,
       canonical |-> "totalIncurred"],
      [synonym |-> <<"i", "n", "c", "u", "r", "r", "e", "d", " ", "l", "o", "s", "s">>,
       canonical |-> "totalIncurred"],
      [synonym |-> <<"t", "o", "t", "a", "l", " ", "r", "e", "s", "e", "r", "v", "e", "s">>,
       canonical |-> "totalReserves"],
      [synonym |-> <<"o", "u", "t", "s", "t", "a", "n", "d", "i", "n", "g">>,
       canonical |-> "totalReserves"],
      [synonym |-> <<"i", "n", "s", "u", "r", "e", "d">>,
       canonical |-> "insured"],
      [synonym |-> <<"i", "n", "s", "u", "r", "e", "d", "(", "s", ")">>,
       canonical |-> "insured"],
      [synonym |-> <<"i", "n", "s", "u", "r", "e", "d", " ", "n", "a", "m", "e">>,
       canonical |-> "insured"],
      [synonym |-> <<"p", "o", "l", "i", "c", "y", "h", "o", "l", "d", "e", "r">>,
       canonical |-> "insured"],
      [synonym |-> <<"r", "u", "n", " ", "d", "a", "t", "e">>,
       canonical |-> "runDate"],
      [synonym |-> <<"p", "o", "l", "i", "c", "y", " ", "n", "u", "m", "b", "e", "r", " ", "h", "e", "a", "d", "e", "r">>,
       canonical |-> "policyNumberHeader"]
    >>

SynIdx == 1..Len(FIELD_SYNONYMS)

FirstIdx(S) == IF S = {} THEN 0 ELSE Min(S)

\* Step 5: the place of the synonym equal to the label, 0 when there is none
ExactMatch(normalized_label) ==
    FirstIdx({i \in SynIdx : FIELD_SYNONYMS[i].synonym = normalized_label})

\* Step 6: the first synonym the label starts with, or that starts with a
\* label of at least 3 characters
PartialMatch(normalized_label) ==
    FirstIdx({i \in SynIdx :
        \/ StartsWith(normalized_label, FIELD_SYNONYMS[i].synonym)
        \/ /\ StartsWith(FIELD_SYNONYMS[i].synonym, normalized_label)
           /\ Len(normalized_label) >= 3})

\* Step 7: the first synonym of at least 4 characters inside a label of at
\* least 5
ContainsMatch(normalized_label) ==
    IF Len(normalized_label) >= 5
    THEN FirstIdx({i \in SynIdx :
             /\ Len(FIELD_SYNONYMS[i].synonym) >= 4
             /\ Contains(normalized_label, FIELD_SYNONYMS[i].synonym)})
    ELSE 0

\* contains tried before partial
LabelMatchContainsFirst(exact, partial, contains) ==
    IF exact > 0 THEN <<Some(FIELD_SYNONYMS[exact].canonical), 10, "exact">>
    ELSE IF contains > 0 THEN <<Some(FIELD_SYNONYMS[contains].canonical), 6, "contains">>
    ELSE IF partial > 0 THEN <<Some(FIELD_SYNONYMS[partial].canonical), 8, "partial">>
    ELSE <<None, 0, "none">>

\* First match wins: exact, then partial, then contains.
LabelMatch(exact, partial, contains) ==
    IF exact > 0 THEN <<Some(FIELD_SYNONYMS[exact].canonical), 10, "exact">>
    ELSE IF partial > 0 THEN <<Some(FIELD_SYNONYMS[partial].canonical), 8, "partial">>
    ELSE IF contains > 0 THEN <<Some(FIELD_SYNONYMS[contains].canonical), 6, "contains">>
    ELSE <<None, 0, "none">>

\* Steps 5-7 on the cleaned label
MatchLabel(normalized_label) ==
    LabelMatch(ExactMatch(normalized_label), PartialMatch(normalized_label),
               ContainsMatch(normalized_label))

\* (canonical_key, confidence in tenths, match_type); canonical_key is
\* Optional.
normalize_field_label(raw_label) ==
    IF raw_label = <<>> THEN <<None, 0, "none">>
    ELSE MatchLabel(CleanLabel(raw_label))

-----------------------------------------------------------------------------
(* NormalizationService.normalize_fields.  A raw item is                   *)
(* [label, value, lines]; a normalized field is                            *)
(* [value, lines, raw_label, confidence, match_type].                      *)

RawField(label, value, lines) == [label |-> label, value |-> value, lines |-> lines]

\* "Skip fields on ignored lines": any integer marker of the item is ignored
OnIgnoredLine(field, ignored) ==
    \E i \in 1..Len(field.lines) :
        IsInt(field.lines[i]) /\ field.lines[i].n \in Range(ignored)

\* The items that reach the dictionary: not on an ignored line, and with a
\* canonical key.  lab[i] is normalize_field_label of item i.
KeptItems(raw, ignored, lab) ==
    {i \in 1..Len(raw) : ~OnIgnoredLine(raw[i], ignored) /\ ~IsNone(lab[i][1])}

\* The kept items that are the first of their canonical key, in input order
FirstOfKey(lab, kept) ==
    SortedSeq({i \in kept : \A j \in kept : lab[j][1] = lab[i][1] => i <= j})

\* normalized[key]: the kept items of the key of item i, in input order
NormalizedList(raw, lab, occ) ==
    List([q \in 1..Len(occ) |->
        [value |-> raw[occ[q]].value, lines |-> raw[occ[q]].lines,
         raw_label |-> raw[occ[q]].label, confidence |-> lab[occ[q]][2],
         match_type |-> lab[occ[q]][3]]])

NormalizedDict(raw, lab, kept, order) ==
    List([p \in 1..Len(order) |->
        [key |-> lab[order[p]][1][1],
         list |-> NormalizedList(raw, lab,
                     SortedSeq({i \in kept : lab[i][1] = lab[order[p]][1]}))]])

NormalizedOfKept(raw, lab, kept) == NormalizedDict(raw, lab, kept, FirstOfKey(lab, kept))

NormalizedOfLabels(raw, ignored, lab) ==
    NormalizedOfKept(raw, lab, KeptItems(raw, ignored, lab))

\* The "normalized" dictionary: canonical keys in order of first appearance,
\* each with its occurrences in input order.
normalize_fields(raw, ignored) ==
    NormalizedOfLabels(raw, ignored,
        List([i \in 1..Len(raw) |-> normalize_field_label(raw[i].label)]))

\* unmapped_fields: the items that are not skipped and have no canonical
\* key, as [label, value, lines], in input order.
UnmappedFields(raw, ignored) ==
    Flatten(List([i \in 1..Len(raw) |->
        IF ~OnIgnoredLine(raw[i], ignored)
           /\ IsNone(normalize_field_label(raw[i].label)[1])
        THEN <<raw[i]>> ELSE <<>>]))

-----------------------------------------------------------------------------
(* NormalizationService._detect_label_collisions.  A collision record is   *)
(* [label, mapped_to, line_ranges], line_ranges a list of <<min, max>>.    *)

CollisionGap == 50

\* valid_lines: the int markers >= 0 of a field, in listed order
ValidIntLines(field) ==
    Flatten(List([i \in 1..Len(field.lines) |->
        IF IsInt(field.lines[i]) /\ field.lines[i].n >= 0
        THEN <<field.lines[i].n>> ELSE <<>>]))

\* The fields of an entry that enter canonical_to_labels: a raw label, a
\* line list and at least one valid line.
LabelledFields(entry) ==
    {f \in 1..Len(entry.list) :
        /\ entry.list[f].raw_label # <<>>
        /\ entry.list[f].lines # <<>>
        /\ ValidIntLines(entry.list[f]) # <<>>}

\* label_groups in insertion order: the first field of every raw label
LabelFirsts(entry, labelled) ==
    SortedSeq({f \in labelled :
        \A g \in labelled :
            entry.list[g].raw_label = entry.list[f].raw_label => f <= g})

\* all_ranges of a raw label: the labelled fields that carry it
FieldsOfLabel(entry, labelled, label) ==
    {f \in labelled : entry.list[f].raw_label = label}

\* all_lines of a raw label, as a set
LinesOfLabel(entry, fields) ==
    UNION {Range(ValidIntLines(entry.list[f])) : f \in fields}

\* The lines that open a region: the lowest line, and every line more than
\* CollisionGap above the line before it.
RegionStarts(all_lines) ==
    {l \in all_lines :
        \/ \A o \in all_lines : o >= l
        \/ l - Max({o \in all_lines : o < l}) > CollisionGap}

\* The last line of the region that opens at start
RegionEnd(all_lines, start) ==
    Max({l \in all_lines :
            /\ l >= start
            /\ \A t \in RegionStarts(all_lines) : t > start => l < t})

\* regions: [min, max] of every cluster, ascending
RegionsAt(all_lines, starts) ==
    List([p \in 1..Len(starts) |-> <<starts[p], RegionEnd(all_lines, starts[p])>>])

Regions(all_lines) == RegionsAt(all_lines, SortedSeq(RegionStarts(all_lines)))

\* The record of one raw label under one key, if any: the label appears at
\* least twice and its sorted lines have a gap above CollisionGap.
CollisionOf(key, label, count, all_lines) ==
    IF count < 2 \/ Cardinality(RegionStarts(all_lines)) < 2 THEN <<>>
    ELSE <<[label |-> label, mapped_to |-> key, line_ranges |-> Regions(all_lines)]>>

CollisionOfFields(entry, label, fields) ==
    CollisionOf(entry.key, label, Cardinality(fields), LinesOfLabel(entry, fields))

CollisionsOfLabels(entry, labelled, firsts) ==
    Flatten(List([p \in 1..Len(firsts) |->
        CollisionOfFields(entry, entry.list[firsts[p]].raw_label,
            FieldsOfLabel(entry, labelled, entry.list[firsts[p]].raw_label))]))

CollisionsOfLabelled(entry, labelled) ==
    CollisionsOfLabels(entry, labelled, LabelFirsts(entry, labelled))

\* The collisions of one canonical key
CollisionsOfEntry(entry) == CollisionsOfLabelled(entry, LabelledFields(entry))

\* _detect_label_collisions: key by key in dictionary order
detect_label_collisions(normalized_fields) ==
    Flatten(List([e \in 1..Len(normalized_fields) |->
        CollisionsOfEntry(normalized_fields[e])]))

-----------------------------------------------------------------------------
(* GroupingService.                                                        *)

Sentinel == 999999

report_level_fields == {"insured", "runDate", "policyNumberHeader", "policyNumber"}

FIELD_GROUPS(key) ==
    CASE key \in {"policyNumber", "policyNumberHeader", "runDate"} -> "policy_info"
      [] key = "insured" -> "insured_info"
      [] key \in {"claimNumber", "dateOfLoss", "reportedDate", "claimStatus"} -> "claim_header"
      [] key = "claimant" -> "claim_parties"
      [] key \in {"totalPaid", "paidAlae", "totalIncurred", "totalReserves"} -> "financials"
      [] key \in {"lossDescription", "coverageSection", "causeOfLoss"} -> "claim_details"
      [] OTHER -> "claim_details"

\* dict.get(key, [])
FieldList(fields, key) ==
    IF \E e \in 1..Len(fields) : fields[e].key = key
    THEN fields[CHOOSE e \in 1..Len(fields) : fields[e].key = key].list
    ELSE <<>>

\* " ".join(values)
RECURSIVE JoinSpace(_)
JoinSpace(values) ==
    IF values = <<>> THEN <<>>
    ELSE IF Len(values) = 1 THEN values[1]
    ELSE values[1] \o <<" ">> \o JoinSpace(Tail(values))

\* `converted if converted is not None else 999999`
OrSentinel(converted) == IF IsNone(converted) THEN Sentinel ELSE converted[1]

\* get_first_line of _merge_field_values: the converted first listed marker
MergeFirstLine(field) ==
    IF field.lines # <<>> THEN OrSentinel(convert_line_number(field.lines[1]))
    ELSE Sentinel

\* `merged_value if merged_value else None`
TruthyOrNone(merged_value) == IF merged_value # <<>> THEN Some(merged_value) ELSE None

\* The non-empty values of the fields taken in the order ord, space-joined
MergedInOrder(field_list, ord) ==
    TruthyOrNone(JoinSpace(Flatten([p \in 1..Len(field_list) |->
        IF field_list[ord[p]].value # <<>>
        THEN <<field_list[ord[p]].value>> ELSE <<>>])))

\* the values joined in input order, the sort left out
merge_field_values_unsorted(field_list) ==
    IF field_list = <<>> THEN None
    ELSE IF Len(field_list) = 1 THEN Some(field_list[1].value)
    ELSE MergedInOrder(field_list, [i \in 1..Len(field_list) |-> i])

\* Optional[str]: the single value as it is, else the non-empty values
\* space-joined in ascending first-line order.
merge_field_values(field_list) ==
    IF field_list = <<>> THEN None
    ELSE IF Len(field_list) = 1 THEN Some(field_list[1].value)
    ELSE MergedInOrder(field_list,
             StableOrder([i \in 1..Len(field_list) |-> MergeFirstLine(field_list[i])]))

\* The fields whose stripped value is not empty and not seen before them
FirstOfValue(field_list) ==
    SortedSeq({i \in 1..Len(field_list) :
        /\ field_list[i].value # <<>>
        /\ Strip(field_list[i].value) # <<>>
        /\ \A j \in 1..(i - 1) :
              \/ field_list[j].value = <<>>
              \/ Strip(field_list[j].value) # Strip(field_list[i].value)})

UniqueData(field_list, order) ==
    List([p \in 1..Len(order) |->
        [value |-> Strip(field_list[order[p]].value),
         lines |-> SortedSeq(Range(ConvertedLines(field_list[order[p]].lines)))]])

\* unique_data: the distinct stripped non-empty values in order of first
\* appearance, each with the sorted lines of its first occurrence.
collect_unique_values_with_lines(field_list) ==
    UniqueData(field_list, FirstOfValue(field_list))

\* A merged value as stored in groups and report_info: kind "none" (None),
\* "str" (one string) or "array" (a list of strings).
MergedNone == [kind |-> "none", vals |-> <<>>]

MergedStr(s) == [kind |-> "str", vals |-> <<s>>]

MergedOfOptional(o) == IF IsNone(o) THEN MergedNone ELSE MergedStr(o[1])

\* the distinct values joined into one string
ReportValueJoined(unique_data) ==
    IF unique_data = <<>> THEN MergedNone
    ELSE MergedStr(JoinSpace([i \in 1..Len(unique_data) |-> unique_data[i].value]))

\* A report-level key: None, the one distinct value, or the list of them
ReportValue(unique_data) ==
    IF unique_data = <<>> THEN MergedNone
    ELSE IF Len(unique_data) = 1 THEN MergedStr(unique_data[1].value)
    ELSE [kind |-> "array",
          vals |-> [i \in 1..Len(unique_data) |-> unique_data[i].value]]

ReportMerged(field_list) == ReportValue(collect_unique_values_with_lines(field_list))

MergedValue(entry) ==
    IF entry.key \in report_level_fields THEN ReportMerged(entry.list)
    ELSE MergedOfOptional(merge_field_values(entry.list))

\* The entry of a key of the dictionary
EntryOf(normalized_fields, key) ==
    normalized_fields[CHOOSE e \in 1..Len(normalized_fields) :
                         normalized_fields[e].key = key]

\* groups, restricted to the groups that hold a key ("Remove empty groups")
GroupsOf(normalized_fields) ==
    [g \in {FIELD_GROUPS(normalized_fields[e].key) : e \in 1..Len(normalized_fields)} |->
        [k \in {normalized_fields[e].key :
                   e \in {e \in 1..Len(normalized_fields) :
                             FIELD_GROUPS(normalized_fields[e].key) = g}} |->
            MergedValue(EntryOf(normalized_fields, k))]]

\* The entries of the dictionary at the places idx, in that order
EntriesAt(normalized_fields, idx) ==
    List([p \in 1..Len(idx) |-> normalized_fields[idx[p]]])

\* claim_fields: the entries of the claim-level keys, in dictionary order
ClaimFields(normalized_fields) ==
    EntriesAt(normalized_fields,
              SortedSeq({e \in 1..Len(normalized_fields) :
                            normalized_fields[e].key \notin report_level_fields}))

\* One location of value_to_locations: the line converts, is below
\* len(standardized_metadata) and has metadata.
LineLocation(at, value, line_num, std) ==
    IF IsNone(line_num) THEN {}
    ELSE IF IsNone(PageOf(std, line_num[1])) THEN {}
    ELSE {[at |-> at, value |-> value, line |-> line_num[1],
           page |-> PageOf(std, line_num[1])[1]]}

\* The locations of one field; none when the stripped value has fewer than
\* 3 characters.
FieldLocations(e, f, field, std) ==
    IF Len(Strip(field.value)) < 3 THEN {}
    ELSE UNION {LineLocation(<<e, f, j>>, Strip(field.value),
                             convert_line_number(field.lines[j]), std) :
                   j \in 1..Len(field.lines)}

\* value_to_locations as a set of [at, value, line, page] records
NoiseLocations(normalized_fields, std) ==
    UNION {UNION {FieldLocations(e, f, normalized_fields[e].list[f], std) :
                     f \in 1..Len(normalized_fields[e].list)} :
              e \in 1..Len(normalized_fields)}

\* The lines of the values located at least min_count times on at least
\* min_count different pages
RepeatedLines(locs, min_count) ==
    {t.line : t \in {t \in locs :
        /\ Cardinality({u \in locs : u.value = t.value}) >= min_count
        /\ Cardinality({u.page : u \in {u \in locs : u.value = t.value}}) >= min_count}}

\* noise at 2 locations on 2 pages already
detect_noise_lines_two_pages(normalized_fields, std) ==
    IF Len(std) = 0 THEN <<>>
    ELSE SortedSeq(RepeatedLines(NoiseLocations(normalized_fields, std), 2))

\* _detect_noise_lines: the lines of every value located at least 3 times
\* on at least 3 different pages, sorted.
detect_noise_lines(normalized_fields, std) ==
    IF Len(std) = 0 THEN <<>>
    ELSE SortedSeq(RepeatedLines(NoiseLocations(normalized_fields, std), 3))

\* get_first_line of _assemble_claims, the sort key of the anchors: the
\* first listed marker when it is an int, else the sentinel.
get_first_line(field) ==
    IF field.lines # <<>> /\ IsInt(field.lines[1])
    THEN field.lines[1].n ELSE Sentinel

\* The list in the order ord
Reordered(list, ord) == List([p \in 1..Len(list) |-> list[ord[p]]])

\* sorted(claim_numbers, key=get_first_line)
SortedClaimNumbers(claim_numbers) ==
    Reordered(claim_numbers,
              StableOrder([i \in 1..Len(claim_numbers) |->
                              get_first_line(claim_numbers[i])]))

\* valid_claim_lines: the int markers >= 0 of the anchor
ValidClaimLines(anchor) ==
    {anchor.lines[i].n : i \in {i \in 1..Len(anchor.lines) :
                                   IsInt(anchor.lines[i]) /\ anchor.lines[i].n >= 0}}

\* The anchor is not skipped by the loop (the three `continue`s).
AnchorUsable(anchor) ==
    /\ anchor.lines # <<>>
    /\ ValidClaimLines(anchor) # {}
    /\ Min(ValidClaimLines(anchor)) # Sentinel

FirstClaimLine(anchor) == Min(ValidClaimLines(anchor))

\* window_end left at the sentinel for every anchor
WindowEndUnbounded(sorted_claim_numbers, idx) == Sentinel

\* `min(valid_next_lines)` when the next anchor has a line that converts
MinOrSentinel(valid_next_lines) ==
    IF valid_next_lines # <<>> THEN Min(Range(valid_next_lines)) ELSE Sentinel

\* window_end of the anchor at position idx of the sorted anchors
WindowEnd(sorted_claim_numbers, idx) ==
    IF idx + 1 <= Len(sorted_claim_numbers)
    THEN MinOrSentinel(ConvertedLines(sorted_claim_numbers[idx + 1].lines))
    ELSE Sentinel

Warning(claimNumber, field, kind, a, b, c, field_value) ==
    [claimNumber |-> claimNumber, field |-> field,
     reason |-> [kind |-> kind, a |-> a, b |-> b, c |-> c],
     field_value |-> field_value]

\* the spread of the field's own pages, the anchor page left out
PageDiffWithinField(field_pages, claim_anchor_page) ==
    Abs(Max(field_pages) - Min(field_pages))

\* page_diff of a field against the anchor page
PageDiff(field_pages, claim_anchor_page) ==
    Min({Abs(Min(field_pages) - claim_anchor_page),
         Abs(Max(field_pages) - claim_anchor_page)})

\* all_lines_in_window
AllLinesInWindow(min_field_line, max_field_line, first_claim_line, window_end) ==
    min_field_line >= first_claim_line /\ max_field_line < window_end

\* A field that is skipped before the checks: no line converts, or a line
\* is ignored.
NoMatch == [matched |-> FALSE, warnings |-> <<>>, traces |-> <<>>]

\* field_pages: the pages of the lines that the metadata resolves
FieldPages(std, lineSet) ==
    {PageOf(std, l)[1] : l \in {l \in lineSet : ~IsNone(PageOf(std, l))}}

\* page_diff, 0 unless the anchor has a page and the field has pages
PageDiffOrZero(field_pages, claim_anchor_page) ==
    IF ~IsNone(claim_anchor_page) /\ field_pages # {}
    THEN PageDiff(field_pages, claim_anchor_page[1]) ELSE 0

\* The outcome of the page check and the window check for one field:
\* page_ok is page_diff <= 1.
FieldVerdict(anchor, window_end, key, field, first_claim_line, claim_anchor_page, min_field_line, field_pages, page_diff, all_lines_in_window) ==
    [matched |-> all_lines_in_window /\ page_diff <= 1,
     warnings |->
        (IF page_diff > 1
         THEN <<Warning(anchor.value, key, "page_too_far", claim_anchor_page[1],
                        Min(field_pages), page_diff, field.value)>>
         ELSE <<>>)
        \o
        (IF ~all_lines_in_window /\ min_field_line >= window_end
         THEN <<Warning(anchor.value, key, "outside_window", min_field_line,
                        window_end, 0, field.value)>>
         ELSE <<>>),
     traces |->
        IF all_lines_in_window /\ page_diff <= 1
        THEN <<[claimNumber |-> anchor.value, field |-> key, rule |-> "window",
                distance |-> Abs(min_field_line - first_claim_line),
                page_diff |-> page_diff]>>
        ELSE <<>>]

\* The checks of one field whose lines are lineSet
FieldChecks(anchor, window_end, key, field, first_claim_line, claim_anchor_page, lineSet, field_pages) ==
    FieldVerdict(anchor, window_end, key, field, first_claim_line, claim_anchor_page,
                 Min(lineSet), field_pages,
                 PageDiffOrZero(field_pages, claim_anchor_page),
                 AllLinesInWindow(Min(lineSet), Max(lineSet), first_claim_line, window_end))

\* The loop body after the conversion of the field's lines
FieldEvalLines(anchor, window_end, key, field, std, ignored, field_line_nums) ==
    IF field_line_nums = <<>>
       \/ (\E l \in Range(field_line_nums) : l \in Range(ignored))
    THEN NoMatch
    ELSE FieldChecks(anchor, window_end, key, field, FirstClaimLine(anchor),
                     PageOf(std, FirstClaimLine(anchor)), Range(field_line_nums),
                     FieldPages(std, Range(field_line_nums)))

\* One pass of the inner loop body for one field of one key under one
\* anchor: whether the field matches, and the warnings and the trace it adds.
FieldEval(anchor, window_end, key, field, std, ignored) ==
    FieldEvalLines(anchor, window_end, key, field, std, ignored,
                   ConvertedLines(field.lines))

\* `abs(min(converted_lines) - first_claim_line)`, the sentinel without lines
DistanceOf(converted_lines, first_claim_line) ==
    IF converted_lines = <<>> THEN Sentinel
    ELSE Abs(Min(Range(converted_lines)) - first_claim_line)

\* get_distance_to_claim
DistanceToClaim(field, first_claim_line) ==
    DistanceOf(ConvertedLines(field.lines), first_claim_line)

\* the first matching occurrence, whatever its distance
FirstMatchingField(matching_fields, first_claim_line) == matching_fields[1]

\* The occurrence a key contributes to a claim out of its matching
\* occurrences: the only one, or the closest to the anchor (stable sort).
ClosestField(matching_fields, first_claim_line) ==
    IF Len(matching_fields) = 1 THEN matching_fields[1]
    ELSE matching_fields[StableOrder([i \in 1..Len(matching_fields) |->
             DistanceToClaim(matching_fields[i], first_claim_line)])[1]]

\* claim["_line_refs"][key] for the chosen occurrence
LineRefsOf(field) == SortedSeq(Range(ConvertedLines(field.lines)))

\* The inner loops under one anchor: FieldEval of every field of every key
\* other than claimNumber, by entry of claim_fields and place in its list.
AnchorEvals(anchor, window_end, claim_fields, std, ignored) ==
    List([e \in 1..Len(claim_fields) |->
        IF claim_fields[e].key = "claimNumber" THEN <<>>
        ELSE List([f \in 1..Len(claim_fields[e].list) |->
                 FieldEval(anchor, window_end, claim_fields[e].key,
                           claim_fields[e].list[f], std, ignored)])])

\* The fields of the entry at the places idx
FieldsAt(entry, idx) == List([p \in 1..Len(idx) |-> entry.list[idx[p]]])

\* matching_fields of one key under one anchor, in list order
MatchingFields(entry, evals) ==
    FieldsAt(entry, SortedSeq({f \in 1..Len(evals) : evals[f].matched}))

\* The occurrence each key contributes to the claim of the anchor, None
\* when no occurrence of the key matches; by entry of claim_fields.
ChosenFields(anchor, claim_fields, evals) ==
    List([e \in 1..Len(claim_fields) |->
        IF \E f \in 1..Len(evals[e]) : evals[e][f].matched
        THEN Some(ClosestField(MatchingFields(claim_fields[e], evals[e]),
                               FirstClaimLine(anchor)))
        ELSE None])

\* The claim object out of the chosen occurrences
ClaimWith(anchor, claim_fields, chosen) ==
    [vals |->
        [k \in {claim_fields[e].key : e \in {e \in 1..Len(chosen) : ~IsNone(chosen[e])}}
                  \cup {"claimNumber"} |->
            IF k = "claimNumber" THEN anchor.value
            ELSE chosen[CHOOSE e \in 1..Len(chosen) :
                           ~IsNone(chosen[e]) /\ claim_fields[e].key = k][1].value],
     line_refs |->
        [k \in {claim_fields[e].key : e \in {e \in 1..Len(chosen) : ~IsNone(chosen[e])}}
                  \cup {"claimNumber"} |->
            IF k = "claimNumber" THEN LineRefsOf(anchor)
            ELSE LineRefsOf(chosen[CHOOSE e \in 1..Len(chosen) :
                               ~IsNone(chosen[e]) /\ claim_fields[e].key = k][1])]]

\* The claim object of one anchor: vals are the claim's own keys
\* (claimNumber and the accepted fields), line_refs is "_line_refs".
ClaimOf(anchor, claim_fields, evals) ==
    ClaimWith(anchor, claim_fields, ChosenFields(anchor, claim_fields, evals))

\* `len(claim) > 2`: more than claimNumber and _line_refs
ClaimRetained(claim) == Cardinality(DOMAIN claim.vals) + 1 > 2

\* What one iteration adds: the claim when it is retained, and the warnings
\* and traces of its fields in loop order.
PassOf(claim, flat) ==
    [claims |-> IF ClaimRetained(claim) THEN <<claim>> ELSE <<>>,
     warnings |-> Flatten([i \in 1..Len(flat) |-> flat[i].warnings]),
     traces |-> Flatten([i \in 1..Len(flat) |-> flat[i].traces])]

PassWith(anchor, claim_fields, evals) ==
    PassOf(ClaimOf(anchor, claim_fields, evals), Flatten(evals))

\* One iteration of the loop over the sorted anchors: the claim it appends
\* (if any), its warnings and its traces.
AnchorPass(sorted_claim_numbers, idx, claim_fields, std, ignored) ==
    IF ~AnchorUsable(sorted_claim_numbers[idx])
    THEN [claims |-> <<>>, warnings |-> <<>>, traces |-> <<>>]
    ELSE PassWith(sorted_claim_numbers[idx], claim_fields,
                  AnchorEvals(sorted_claim_numbers[idx],
                              WindowEnd(sorted_claim_numbers, idx),
                              claim_fields, std, ignored))

\* all_lines of a key: every converted line of every occurrence
AllLines(field_list) ==
    UNION {Range(ConvertedLines(field_list[f].lines)) : f \in 1..Len(field_list)}

\* The single claim out of the merged value and the lines of each entry
SyntheticWith(claim_fields, merged, all_lines) ==
    [vals |->
        [k \in {claim_fields[e].key :
                   e \in {e \in 1..Len(claim_fields) :
                             ~IsNone(merged[e]) /\ merged[e][1] # <<>>}} |->
            merged[CHOOSE e \in 1..Len(claim_fields) : claim_fields[e].key = k][1]],
     line_refs |->
        [k \in {claim_fields[e].key :
                   e \in {e \in 1..Len(claim_fields) :
                             /\ ~IsNone(merged[e]) /\ merged[e][1] # <<>>
                             /\ all_lines[e] # {}}} |->
            SortedSeq(all_lines[CHOOSE e \in 1..Len(claim_fields) :
                                   claim_fields[e].key = k])]]

\* The single claim built when there is no claimNumber: every key whose
\* merged value is truthy, with all the converted lines of the key.
SyntheticClaim(claim_fields) ==
    SyntheticWith(claim_fields,
        List([e \in 1..Len(claim_fields) |-> merge_field_values(claim_fields[e].list)]),
        List([e \in 1..Len(claim_fields) |-> AllLines(claim_fields[e].list)]))

\* `if len(claim) > 1`: more than _line_refs
SyntheticResult(claim) ==
    [claims |-> IF Cardinality(DOMAIN claim.vals) + 1 > 1 THEN <<claim>> ELSE <<>>,
     warnings |-> <<>>, traces |-> <<>>]

\* The claims, warnings and traces of the iterations, in loop order
Collected(passes) ==
    [claims |-> Flatten([idx \in 1..Len(passes) |-> passes[idx].claims]),
     warnings |-> Flatten([idx \in 1..Len(passes) |-> passes[idx].warnings]),
     traces |-> Flatten([idx \in 1..Len(passes) |-> passes[idx].traces])]

\* The loop over the sorted anchors
AssembleSorted(sorted_claim_numbers, claim_fields, std, ignored) ==
    Collected(List([idx \in 1..Len(sorted_claim_numbers) |->
        AnchorPass(sorted_claim_numbers, idx, claim_fields, std, ignored)]))

\* _assemble_claims: (claims, warnings, assignment_traces)
assemble_claims(claim_fields, std, ignored) ==
    IF claim_fields = <<>>
    THEN [claims |-> <<>>, warnings |-> <<>>, traces |-> <<>>]
    ELSE IF FieldList(claim_fields, "claimNumber") = <<>>
    THEN SyntheticResult(SyntheticClaim(claim_fields))
    ELSE AssembleSorted(SortedClaimNumbers(FieldList(claim_fields, "claimNumber")),
                        claim_fields, std, ignored)

\* report_info of one report-level key: the value under the key, and under
\* "_<key>_line_refs" the lines of each distinct value (a list when there is
\* one value, a dict by index when there are several, absent when none).
ReportEntry(unique_data) ==
    [value |-> ReportValue(unique_data),
     line_refs |-> List([i \in 1..Len(unique_data) |-> unique_data[i].lines])]

\* report_info: the report-level keys of the dictionary
ReportInfoOf(normalized_fields) ==
    [k \in {normalized_fields[e].key : e \in 1..Len(normalized_fields)}
               \cap report_level_fields |->
        ReportEntry(collect_unique_values_with_lines(EntryOf(normalized_fields, k).list))]

\* The result dictionary of group_fields
GroupedData(groups_of, report, assembled, ignored) ==
    [groups |-> groups_of,
     report_info |-> report,
     claims |-> assembled.claims,
     claim_warnings |-> assembled.warnings,
     assignment_traces |-> assembled.traces,
     ignored_lines |-> ignored]

\* group_fields once the noise lines are detected
GroupWith(normalized_fields, std, ignored) ==
    GroupedData(GroupsOf(normalized_fields), ReportInfoOf(normalized_fields),
                assemble_claims(ClaimFields(normalized_fields), std, ignored),
                ignored)

\* group_fields: groups, claims, warnings, traces and ignored lines
group_fields(normalized_fields, std) ==
    GroupWith(normalized_fields, std, detect_noise_lines(normalized_fields, std))

-----------------------------------------------------------------------------
(* LLMService._build_field_refs and LLMService._build_flat_highlights.     *)
(* LLMService._convert_line_number is the same code as the grouping        *)
(* service's, and is read through convert_line_number.                     *)

\* field_refs[canonical_key] when all_lines is not empty
FieldRefOf(key, all_lines) ==
    IF all_lines # {} THEN <<[key |-> key, lines |-> SortedSeq(all_lines)]>> ELSE <<>>

\* _build_field_refs: [key, lines] entries in dictionary order
build_field_refs(normalized_fields) ==
    Flatten(List([e \in 1..Len(normalized_fields) |->
        FieldRefOf(normalized_fields[e].key, AllLines(normalized_fields[e].list))]))

\* standardized_metadata[line_num] raises IndexError: a negative index
\* below -len
IndexRaises(std, line_num) == line_num < 0 /\ 0 - line_num > Len(std)

\* What one raw line marker of a field of the key adds: an invalid_refs
\* entry, a missing_metadata entry, a rectangle, or an IndexError.
MarkerOutcome(key, marker, converted_line, std) ==
    IF IsNone(converted_line)
    THEN [kind |-> "invalid", entry |-> [field |-> key, line |-> marker]]
    ELSE IF converted_line[1] >= Len(std)
    THEN [kind |-> "missing",
          entry |-> [field |-> key, line |-> converted_line[1], reason |-> "out_of_range"]]
    ELSE IF IndexRaises(std, converted_line[1])
    THEN [kind |-> "raise", entry |-> <<>>]
    ELSE IF IsNone(MetaAt(std, converted_line[1]))
    THEN [kind |-> "missing",
          entry |-> [field |-> key, line |-> converted_line[1], reason |-> "none"]]
    ELSE [kind |-> "rect", entry |-> MetaAt(std, converted_line[1])[1]]

\* The outcomes of the markers of one field, in listed order
FieldOutcomes(key, field, std) ==
    List([j \in 1..Len(field.lines) |->
        MarkerOutcome(key, field.lines[j], convert_line_number(field.lines[j]), std)])

\* The outcomes of one key: field by field, marker by marker
KeyOutcomes(entry, std) ==
    Flatten(List([f \in 1..Len(entry.list) |-> FieldOutcomes(entry.key, entry.list[f], std)]))

\* The entries of the outcomes of one kind, in order
OutcomesOfKind(outcomes, kind) ==
    Flatten(List([i \in 1..Len(outcomes) |->
        IF outcomes[i].kind = kind THEN <<outcomes[i].entry>> ELSE <<>>]))

\* deduplicated: every rectangle not seen before it
Deduplicated(highlights) ==
    Flatten(List([i \in 1..Len(highlights) |->
        IF \E j \in 1..(i - 1) : highlights[j] = highlights[i]
        THEN <<>> ELSE <<highlights[i]>>]))

\* The value a dictionary key holds after assignments in this order
LastAssigned(assigned) == assigned[Len(assigned)]

\* highlight_data[canonical_key] when there are highlights: assigned the
\* deduplicated list, and then assigned the highlights.
HighlightEntry(key, highlights) ==
    IF highlights = <<>> THEN <<>>
    ELSE <<[key |-> key,
            rects |-> LastAssigned(<<Deduplicated(highlights), highlights>>)]>>

\* (highlight_data, invalid_refs, missing_metadata) out of the outcomes of
\* every key; raised when a marker raises.
HighlightsOf(normalized_fields, outcomes) ==
    [raised |-> \E e \in 1..Len(outcomes) :
                    \E i \in 1..Len(outcomes[e]) : outcomes[e][i].kind = "raise",
     highlight_data |->
        Flatten(List([e \in 1..Len(outcomes) |->
            HighlightEntry(normalized_fields[e].key, OutcomesOfKind(outcomes[e], "rect"))])),
     invalid_refs |->
        Flatten(List([e \in 1..Len(outcomes) |-> OutcomesOfKind(outcomes[e], "invalid")])),
     missing_metadata |->
        Flatten(List([e \in 1..Len(outcomes) |-> OutcomesOfKind(outcomes[e], "missing")]))]

\* _build_flat_highlights
build_flat_highlights(normalized_fields, std) ==
    HighlightsOf(normalized_fields,
        List([e \in 1..Len(normalized_fields) |-> KeyOutcomes(normalized_fields[e], std)]))

-----------------------------------------------------------------------------
(* field_confidence of normalize_fields, LLMService._apply_strict_mode and *)
(* LLMService._build_backward_compatible_source_refs.                      *)

\* field_confidence: "use highest confidence for this canonical key"
FieldConfidence(normalized_fields) ==
    [k \in {normalized_fields[e].key : e \in 1..Len(normalized_fields)} |->
        Max({EntryOf(normalized_fields, k).list[f].confidence :
                f \in 1..Len(EntryOf(normalized_fields, k).list)})]

\* field_confidence.get(canonical_key, 0.0)
ConfidenceOf(confidence, key) ==
    IF key \in DOMAIN confidence THEN confidence[key] ELSE 0

StrictThreshold == 4

\* "Build set of collision-affected canonical keys"
CollisionKeys(collisions) == {collisions[c].mapped_to : c \in 1..Len(collisions)}

\* The reason a key is dropped in strict mode, "" when it is kept
DropReason(key, confidence, collisions) ==
    IF ConfidenceOf(confidence, key) < StrictThreshold THEN "low confidence"
    ELSE IF key \in CollisionKeys(collisions) THEN "ambiguous collision"
    ELSE ""

\* _apply_strict_mode: the kept entries of the dictionary and the dropped
\* keys with their reason and confidence, both in dictionary order.
apply_strict_mode(normalized_fields, confidence, collisions) ==
    [filtered_fields |->
        Flatten(List([e \in 1..Len(normalized_fields) |->
            IF DropReason(normalized_fields[e].key, confidence, collisions) = ""
            THEN <<normalized_fields[e]>> ELSE <<>>])),
     dropped_fields |->
        Flatten(List([e \in 1..Len(normalized_fields) |->
            IF DropReason(normalized_fields[e].key, confidence, collisions) = ""
            THEN <<>>
            ELSE <<[field |-> normalized_fields[e].key,
                    reason |-> DropReason(normalized_fields[e].key, confidence, collisions),
                    confidence |-> ConfidenceOf(confidence, normalized_fields[e].key)]>>]))]

\* `key in field_refs` and field_refs[key]
HasRef(refs, key) == \E e \in 1..Len(refs) : refs[e].key = key

RefOf(refs, key) == refs[CHOOSE e \in 1..Len(refs) : refs[e].key = key].lines

\* A path of _source_refs: "data.claims[0].claimant" is
\* SourcePath("data", "claims", Some(0), "claimant"), "report_info.insured"
\* is SourcePath("", "report_info", None, "insured").
SourcePath(root, section, index, key) ==
    [root |-> root, section |-> section, index |-> index, key |-> key]

PathRoots == {"data", ""}

\* The index parts of the paths of one report-level key: one per value of
\* an array, none for a single value, and none for a key without line refs
\* that has global field_refs.
ReportIndexes(entry, refs, key) ==
    IF entry.value.kind = "array" THEN {Some(i - 1) : i \in 1..Len(entry.line_refs)}
    ELSE IF entry.value.kind = "str" THEN {None}
    ELSE IF HasRef(refs, key) THEN {None}
    ELSE {}

\* The keys of a claim that get a path: those with claim-specific line
\* refs, and those with global field_refs.
ClaimPathKeys(claim, refs) ==
    {k \in DOMAIN claim.vals : k \in DOMAIN claim.line_refs \/ HasRef(refs, k)}

SourcePaths(refs, report, claim_list) ==
    UNION {{SourcePath(r, "report_info", x, k) :
               r \in PathRoots, x \in ReportIndexes(report[k], refs, k)} :
           k \in DOMAIN report}
    \cup UNION {{SourcePath(r, "claims", Some(idx - 1), k) :
                    r \in PathRoots, k \in ClaimPathKeys(claim_list[idx], refs)} :
                idx \in 1..Len(claim_list)}

\* The lines stored under a path
SourceLines(refs, report, claim_list, path) ==
    IF path.section = "claims"
    THEN IF path.key \in DOMAIN claim_list[path.index[1] + 1].line_refs
         THEN claim_list[path.index[1] + 1].line_refs[path.key]
         ELSE RefOf(refs, path.key)
    ELSE IF report[path.key].value.kind = "array"
    THEN report[path.key].line_refs[path.index[1] + 1]
    ELSE IF report[path.key].value.kind = "str"
    THEN report[path.key].line_refs[1]
    ELSE RefOf(refs, path.key)

\* _build_backward_compatible_source_refs
build_backward_compatible_source_refs(refs, report, claim_list) ==
    [path \in SourcePaths(refs, report, claim_list) |->
        SourceLines(refs, report, claim_list, path)]

-----------------------------------------------------------------------------
(* st_table_builder: ST rows out of flat tagged items.  A field of an item *)
(* is a JSON value: a string, a number, a list of integers, null, or       *)
(* missing when the item has no such key.  A column name is a string.      *)

JStr(s) == [kind |-> "str", s |-> s, n |-> 0, v |-> <<>>]

JNum(n) == [kind |-> "num", s |-> <<>>, n |-> n, v |-> <<>>]

JList(v) == [kind |-> "list", s |-> <<>>, n |-> 0, v |-> v]

JNull == [kind |-> "null", s |-> <<>>, n |-> 0, v |-> <<>>]

JMissing == [kind |-> "missing", s |-> <<>>, n |-> 0, v |-> <<>>]

\* bool(j): None, "", 0 and [] are falsy
Truthy(j) ==
    CASE j.kind = "str" -> j.s # <<>>
      [] j.kind = "num" -> j.n # 0
      [] j.kind = "list" -> j.v # <<>>
      [] OTHER -> FALSE

\* item.get(key, default)
GetOr(j, default) == IF j.kind = "missing" THEN default ELSE j

\* item.get(key) or default
OrElse(j, default) == IF Truthy(j) THEN j ELSE default

StItem(source_key, canonical_name, value, line_numbers, semantic_type) ==
    [source_key |-> source_key, canonical_name |-> canonical_name, value |-> value,
     line_numbers |-> line_numbers, semantic_type |-> semantic_type]

ST_CANONICAL_FIELDS ==
    <<
      <<"l", "o", "b">>,
      <<"i", "n", "s", "u", "r", "e", "d">>,
      <<"d", "b", "a">>,
      <<"p", "o", "l", "i", "c", "y", "N", "u", "m", "b", "e", "r">>,
      <<"e", "f", "f", "d", "a", "t", "e">>,
      <<"e", "x", "p", "d", "a", "t", "e">>,
      <<"c", "a", "r", "r", "i", "e", "r">>,
      <<"v", "a", "l", "u", "e", "d", "D", "a", "t", "e">>,
      <<"c", "l", "a", "i", "m", "N", "u", "m", "b", "e", "r">>,
      <<"c", "l", "a", "i", "m", "a", "n", "t">>,
      <<"c", "l", "a", "i", "m", "S", "t", "a", "t", "u", "s">>,
      <<"c", "l", "o", "s", "e", "d", "D", "a", "t", "e">>,
      <<"r", "e", "p", "o", "r", "t", "e", "d", "D", "a", "t", "e">>,
      <<"d", "a", "t", "e", "O", "f", "L", "o", "s", "s">>,
      <<"l", "o", "s", "s", "D", "e", "s", "c", "r", "i", "p", "t", "i", "o", "n">>,
      <<"l", "o", "s", "s", "L", "o", "c", "a", "t", "i", "o", "n">>,
      <<"s", "t", "a", "t", "e">>,
      <<"c", "i", "t", "y">>,
      <<"m", "e", "d", "i", "c", "a", "l", "P", "a", "i", "d">>,
      <<"m", "e", "d", "i", "c", "a", "l", "P", "a", "i", "d", "2">>,
      <<"m", "e", "d", "i", "c", "a", "l", "P", "a", "i", "d", "3">>,
      <<"m", "e", "d", "i", "c", "a", "l", "R", "e", "s", "e", "r", "v", "e", "s">>,
      <<"m", "e", "d", "i", "c", "a", "l", "R", "e", "s", "e", "r", "v", "e", "s", "2">>,
      <<"m", "e", "d", "i", "c", "a", "l", "R", "e", "s", "e", "r", "v", "e", "s", "3">>,
      <<"i", "n", "d", "e", "m", "n", "i", "t", "y", "P", "a", "i", "d">>,
      <<"i", "n", "d", "e", "m", "n", "i", "t", "y", "P", "a", "i", "d", "2">>,
      <<"i", "n", "d", "e", "m", "n", "i", "t", "y", "P", "a", "i", "d", "3">>,
      <<"i", "n", "d", "e", "m", "n", "i", "t", "y", "P", "a", "i", "d", "4">>,
      <<"i", "n", "d", "e", "m", "n", "i", "t", "y", "P", "a", "i", "d", "5">>,
      <<"i", "n", "d", "e", "m", "n", "i", "t", "y", "P", "a", "i", "d", "6">>,
      <<"i", "n", "d", "e", "m", "n", "i", "t", "y", "R", "e", "s", "e", "r", "v", "e", "s">>,
      <<"i", "n", "d", "e", "m", "n", "i", "t", "y", "R", "e", "s", "e", "r", "v", "e", "s", "2">>,
      <<"i", "n", "d", "e", "m", "n", "i", "t", "y", "R", "e", "s", "e", "r", "v", "e", "s", "3">>,
      <<"i", "n", "d", "e", "m", "n", "i", "t", "y", "R", "e", "s", "e", "r", "v", "e", "s", "4">>,
      <<"i", "n", "d", "e", "m", "n", "i", "t", "y", "R", "e", "s", "e", "r", "v", "e", "s", "5">>,
      <<"i", "n", "d", "e", "m", "n", "i", "t", "y", "R", "e", "s", "e", "r", "v", "e", "s", "6">>,
      <<"e", "x", "p", "e", "n", "s", "e", "s", "P", "a", "i", "d">>,
      <<"e", "x", "p", "e", "n", "s", "e", "s", "P", "a", "i", "d", "2">>,
      <<"e", "x", "p", "e", "n", "s", "e", "s", "P", "a", "i", "d", "3">>,
      <<"e", "x", "p", "e", "n", "s", "e", "s", "P", "a", "i", "d", "4">>,
      <<"e", "x", "p", "e", "n", "s", "e", "s", "P", "a", "i", "d", "5">>,
      <<"e", "x", "p", "e", "n", "s", "e", "s", "P", "a", "i", "d", "6">>,
      <<"e", "x", "p", "e", "n", "s", "e", "s", "R", "e", "s", "e", "r", "v", "e", "s">>,
      <<"e", "x", "p", "e", "n", "s", "e", "s", "R", "e", "s", "e", "r", "v", "e", "s", "2">>,
      <<"e", "x", "p", "e", "n", "s", "e", "s", "R", "e", "s", "e", "r", "v", "e", "s", "3">>,
      <<"e", "x", "p", "e", "n", "s", "e", "s", "R", "e", "s", "e", "r", "v", "e", "s", "4">>,
      <<"e", "x", "p", "e", "n", "s", "e", "s", "R", "e", "s", "e", "r", "v", "e", "s", "5">>,
      <<"e", "x", "p", "e", "n", "s", "e", "s", "R", "e", "s", "e", "r", "v", "e", "s", "6">>,
      <<"t", "o", "t", "a", "l", "P", "a", "i", "d">>,
      <<"t", "o", "t", "a", "l", "P", "a", "i", "d", "2">>,
      <<"t", "o", "t", "a", "l", "R", "e", "s", "e", "r", "v", "e">>,
      <<"t", "o", "t", "a", "l", "R", "e", "s", "e", "r", "v", "e", "2">>,
      <<"t", "o", "t", "a", "l", "I", "n", "c", "u", "r", "r", "e", "d", "S", "o", "u", "r", "c", "e">>,
      <<"r", "e", "c", "o", "v", "e", "r", "i", "e", "s">>,
      <<"r", "e", "c", "o", "v", "e", "r", "i", "e", "s", "2">>,
      <<"r", "e", "c", "o", "v", "e", "r", "i", "e", "s", "3">>,
      <<"r", "e", "c", "o", "v", "e", "r", "i", "e", "s", "4">>,
      <<"r", "e", "c", "o", "v", "e", "r", "i", "e", "s", "5">>,
      <<"r", "e", "c", "o", "v", "e", "r", "i", "e", "s", "6">>,
      <<"t", "o", "t", "a", "l", "M", "e", "d", "i", "c", "a", "l">>,
      <<"t", "o", "t", "a", "l", "I", "n", "d", "e", "m", "n", "i", "t", "y">>,
      <<"t", "o", "t", "a", "l", "E", "x", "p", "e", "n", "s", "e", "s">>,
      <<"i", "n", "f", "e", "r", "r", "e", "d", "C", "u", "r", "r", "e", "n", "c", "y">>,
      <<"p", "a", "g", "e", "N", "u", "m", "b", "e", "r">>,
      <<"s", "h", "e", "e", "t", "N", "a", "m", "e">>
    >>

empty_field(canonical_name) ==
    StItem(JStr(<<>>), JStr(canonical_name), JStr(<<>>), JList(<<>>), JStr(<<>>))

init_empty_row == [field \in Range(ST_CANONICAL_FIELDS) |-> empty_field(field)]

\* (item.get(key) or "").strip() raises AttributeError on a truthy value
\* that is no string
StripRaises(j) == Truthy(j) /\ j.kind # "str"

\* (item.get(key) or "").strip()
StrippedOrEmpty(j) == IF Truthy(j) THEN Strip(j.s) ELSE <<>>

ClaimNumberKey == <<"c", "l", "a", "i", "m", "N", "u", "m", "b", "e", "r">>

ClaimNumberPrefix == <<"c", "l", "a", "i", "m", ".", "n", "u", "m", "b", "e", "r">>

ClaimNumberLower == <<"c", "l", "a", "i", "m", "n", "u", "m", "b", "e", "r">>

is_claim_number_item(item) ==
    \/ StartsWith(StrippedOrEmpty(item.semantic_type), ClaimNumberPrefix)
    \/ Lower(StrippedOrEmpty(item.canonical_name)) = ClaimNumberLower

NoLine == 1000000000

\* min(nums) raises TypeError on a truthy value that is no list
MinRaises(j) == Truthy(j) /\ j.kind = "num"

\* _first_line: `min(nums) if nums else 10**9`
first_line(item) ==
    IF Truthy(item.line_numbers) THEN Min(Range(item.line_numbers.v)) ELSE NoLine

\* The record a slot takes from an item
SlotOf(base_key, item) ==
    StItem(GetOr(item.source_key, JStr(<<>>)),
           OrElse(item.canonical_name, JStr(base_key)),
           GetOr(item.value, JStr(<<>>)),
           OrElse(item.line_numbers, JList(<<>>)),
           GetOr(item.semantic_type, JStr(<<>>)))

\* is_empty_field: `not field.get("value")`
is_empty_field(field) == ~Truthy(field.value)

StSuffixes == <<"2", "3", "4", "5", "6">>

\* f"{base_key}{n}" for n in range(2, 7)
Numbered(base_key, n) == base_key \o <<StSuffixes[n - 1]>>

\* row[key] = record
WithSlot(row, key, record) ==
    [k \in DOMAIN row \cup {key} |-> IF k = key THEN record ELSE row[k]]

\* the numbered variants that are empty or no column of the row
FreeVariantsUnchecked(row, base_key) ==
    {n \in 2..6 : \/ Numbered(base_key, n) \notin DOMAIN row
                  \/ is_empty_field(row[Numbered(base_key, n)])}

\* The numbered variants of base_key that are columns of the row and empty
FreeVariants(row, base_key) ==
    {n \in 2..6 : /\ Numbered(base_key, n) \in DOMAIN row
                  /\ is_empty_field(row[Numbered(base_key, n)])}

\* the item always overwrites the base column
assign_field_to_row_overwriting(row, base_key, item) ==
    IF base_key \notin DOMAIN row THEN row
    ELSE WithSlot(row, base_key, SlotOf(base_key, item))

\* _assign_field_to_row: the base column when it is empty, else the first
\* empty numbered variant, else nowhere
assign_field_to_row(row, base_key, item) ==
    IF base_key \notin DOMAIN row THEN row
    ELSE IF is_empty_field(row[base_key])
    THEN WithSlot(row, base_key, SlotOf(base_key, item))
    ELSE IF FreeVariants(row, base_key) = {} THEN row
    ELSE WithSlot(row, Numbered(base_key, Min(FreeVariants(row, base_key))),
                  SlotOf(base_key, item))

\* claim_items: the places of the anchors, in input order
ClaimItems(items) == SortedSeq({i \in 1..Len(items) : is_claim_number_item(items[i])})

\* claim_items.sort(key=_first_line): a stable sort
SortedBy(items, claim_items) ==
    List([p \in 1..Len(claim_items) |->
        claim_items[StableOrder([q \in 1..Len(claim_items) |->
                                    first_line(items[claim_items[q]])])[p]]])

\* `base_key[0].lower() + base_key[1:]`
BaseKey(canonical) == <<ToLower(canonical[1])>> \o Tail(canonical)

\* What the scan of one row has reached: the row, the items counted as
\* assigned so far (assigned_item_ids) and their number (items_assigned)
Scan(row, assigned, count) == [row |-> row, assigned |-> assigned, count |-> count]

\* `if old_value != new_value:` on the base column
AfterAssign(scan, i, base_key, new_row) ==
    IF scan.row[base_key].value # new_row[base_key].value
    THEN Scan(new_row, scan.assigned \cup {i}, scan.count + 1)
    ELSE Scan(new_row, scan.assigned, scan.count)

\* The item is fully inside [start, end)
InWindow(item, start, end) ==
    /\ Min(Range(item.line_numbers.v)) >= start
    /\ Max(Range(item.line_numbers.v)) < end

\* One pass of the inner loop of build_st_rows, for item i under anchor a
ScanItem(items, i, a, start, end, scan) ==
    IF i = a \/ ~Truthy(items[i].line_numbers) THEN scan
    ELSE IF ~InWindow(items[i], start, end) THEN scan
    ELSE IF StrippedOrEmpty(items[i].canonical_name) = <<>> THEN scan
    ELSE IF BaseKey(StrippedOrEmpty(items[i].canonical_name)) \notin DOMAIN scan.row
    THEN scan
    ELSE AfterAssign(scan, i, BaseKey(StrippedOrEmpty(items[i].canonical_name)),
             assign_field_to_row(scan.row,
                                 BaseKey(StrippedOrEmpty(items[i].canonical_name)),
                                 items[i]))

RECURSIVE ScanFrom(_, _, _, _, _, _)
ScanFrom(items, i, a, start, end, scan) ==
    IF i > Len(items) THEN scan
    ELSE ScanFrom(items, i + 1, a, start, end, ScanItem(items, i, a, start, end, scan))

\* `end`: the first line of the next anchor, 10**9 after the last
StWindowEnd(items, anchors, p) ==
    IF p < Len(anchors) THEN first_line(items[anchors[p + 1]]) ELSE NoLine

\* The rows built so far with the items counted as assigned
Built(rows, assigned, count) == [rows |-> rows, assigned |-> assigned, count |-> count]

AfterRow(built, scan) == Built(Append(built.rows, scan.row), scan.assigned, scan.count)

\* The outer loop from anchor p on: "Always assign the anchor as
\* claimNumber", then scan all items.
RECURSIVE RowsFrom(_, _, _, _)
RowsFrom(items, anchors, p, built) ==
    IF p > Len(anchors) THEN built
    ELSE RowsFrom(items, anchors, p + 1,
             AfterRow(built,
                 ScanFrom(items, 1, anchors[p], first_line(items[anchors[p]]),
                          StWindowEnd(items, anchors, p),
                          Scan(assign_field_to_row(init_empty_row, ClaimNumberKey,
                                                   items[anchors[p]]),
                               built.assigned \cup {anchors[p]}, built.count))))

\* value[:50]
Truncated(j) == IF j.kind = "str" /\ Len(j.s) > 50 THEN JStr(SubSeq(j.s, 1, 50)) ELSE j

\* item.get("value", "")[:50] raises TypeError on null and on a number
SliceRaises(j) == j.kind \in {"null", "num"}

\* An entry of items_unassigned
UnassignedEntry(item) ==
    StItem(GetOr(item.source_key, JNull), GetOr(item.canonical_name, JNull),
           Truncated(GetOr(item.value, JStr(<<>>))),
           GetOr(item.line_numbers, JNull), GetOr(item.semantic_type, JNull))

\* debug_info: the counters and the unassigned items; the per-row details,
\* the lists of items without canonical name or line numbers and the texts
\* of the validation issues are not kept.
DebugInfo(total, anchors, rows, count, unassigned) ==
    [total_items |-> total, claim_anchors_found |-> anchors, rows_created |-> rows,
     items_assigned |-> count, items_unassigned |-> unassigned]

\* "Find unassigned items"
ItemsUnassigned(items, assigned) ==
    Flatten(List([i \in 1..Len(items) |->
        IF i \in assigned THEN <<>> ELSE <<UnassignedEntry(items[i])>>]))

\* The exceptions of build_st_rows before the rows are built: strip() of a
\* name or type that is no string, min() of line numbers that are no list.
RaisesBefore(items) ==
    \/ \E i \in 1..Len(items) :
          StripRaises(items[i].canonical_name) \/ StripRaises(items[i].semantic_type)
    \/ /\ \E i \in 1..Len(items) : is_claim_number_item(items[i])
       /\ \E i \in 1..Len(items) : MinRaises(items[i].line_numbers)

\* The exceptions while the rows are built and after: value[:50] of an item
\* inside a window or left unassigned, and strip() of a claim number in
\* validate_st_rows.
RaisesAfter(items, anchors, built) ==
    \/ \E p \in 1..Len(anchors) : \E i \in 1..Len(items) :
          /\ i # anchors[p]
          /\ Truthy(items[i].line_numbers)
          /\ InWindow(items[i], first_line(items[anchors[p]]),
                      StWindowEnd(items, anchors, p))
          /\ SliceRaises(items[i].value)
    \/ \E i \in 1..Len(items) : i \notin built.assigned /\ SliceRaises(items[i].value)
    \/ \E r \in 1..Len(built.rows) :
          built.rows[r][ClaimNumberKey].value.kind \in {"null", "num"}

StRaised == [raised |-> TRUE, rows |-> <<>>, debug_info |-> <<>>]

StResult(rows, debug_info) == [raised |-> FALSE, rows |-> rows, debug_info |-> debug_info]

StBuilt(items, anchors, built) ==
    IF RaisesAfter(items, anchors, built) THEN StRaised
    ELSE StResult(built.rows,
                  DebugInfo(Len(items), Len(anchors), Len(built.rows), built.count,
                            ItemsUnassigned(items, built.assigned)))

StWithAnchors(items, anchors) ==
    StBuilt(items, anchors, RowsFrom(items, anchors, 1, Built(<<>>, {}, 0)))

\* build_st_rows(items, debug=True): (rows, debug_info), or an exception
build_st_rows(items) ==
    IF items = <<>> THEN StResult(<<>>, DebugInfo(0, 0, 0, 0, <<>>))
    ELSE IF RaisesBefore(items) THEN StRaised
    ELSE IF ClaimItems(items) = <<>>
    THEN StResult(<<>>, DebugInfo(Len(items), 0, 0, 0, <<>>))
    ELSE StWithAnchors(items, SortedBy(items, ClaimItems(items)))

-----------------------------------------------------------------------------
(* routes/highlight.py: the highlight endpoint over the stored line        *)
(* metadata, whose list entries are [page, base_y, height, page_height].   *)

\* _is_valid_line_metadata
is_valid_line_metadata(raw) ==
    /\ raw.kind = "list"
    /\ Len(raw.v) >= 4
    /\ raw.v[4] > 0
    /\ raw.v[3] > 0

\* int((top / page_height) * target): the quotient of the float division is
\* exact, and so is the product, when page_height is a power of two, which
\* the page heights of the bounded requests are; int() truncates.
Scaled(top, page_height, target) == (top * target) \div page_height

\* _get_line_coordinates: the baseline shifted up by the height, scaled into
\* the viewport
get_line_coordinates(raw, target_width, target_height) ==
    [page |-> raw.v[1], x1 |-> 0,
     y1 |-> Scaled(Max({0, raw.v[2] - raw.v[3]}), raw.v[4], target_height),
     x2 |-> target_width,
     y2 |-> Scaled(Max({0, raw.v[2] - raw.v[3]}) + raw.v[3], raw.v[4], target_height)]

\* An HTTP response: the status and, with 200, the body
Response(status, body) == [status |-> status, body |-> body]

NoBody == <<>>

\* The neighbour at index n heals the line: a valid list on target_page
Heals(metadata, n, target_page) ==
    /\ is_valid_line_metadata(metadata[n + 1])
    /\ metadata[n + 1].v[1] = target_page

\* the following line is tried before the preceding one
self_heal_next_first(metadata, line, target_width, target_height) ==
    IF line + 1 < Len(metadata) /\ Heals(metadata, line + 1, metadata[line + 1].v[1])
    THEN get_line_coordinates(metadata[line + 2], target_width, target_height)
    ELSE IF line > 0 /\ Heals(metadata, line - 1, metadata[line + 1].v[1])
    THEN get_line_coordinates(metadata[line], target_width, target_height)
    ELSE [page |-> metadata[line + 1].v[1], x1 |-> 0, y1 |-> 0, x2 |-> 0, y2 |-> 0]

\* A negative line index passes `line >= len(line_metadata)` and counts from
\* the end of the list; beyond its start the IndexError becomes a 500.  The
\* line before is not looked at.
get_highlight_wrapped(metadata, line, target_width, target_height) ==
    IF line < 0 - Len(metadata) THEN Response(500, NoBody)
    ELSE IF metadata[Len(metadata) + line + 1].kind # "list"
            \/ Len(metadata[Len(metadata) + line + 1].v) < 4
    THEN Response(400, NoBody)
    ELSE IF is_valid_line_metadata(metadata[Len(metadata) + line + 1])
    THEN Response(200, get_line_coordinates(metadata[Len(metadata) + line + 1],
                                            target_width, target_height))
    ELSE IF Heals(metadata, (Len(metadata) + line + 1) % Len(metadata),
                  metadata[Len(metadata) + line + 1].v[1])
    THEN Response(200, get_line_coordinates(
                           metadata[((Len(metadata) + line + 1) % Len(metadata)) + 1],
                           target_width, target_height))
    ELSE Response(200, [page |-> metadata[Len(metadata) + line + 1].v[1],
                        x1 |-> 0, y1 |-> 0, x2 |-> 0, y2 |-> 0])

\* "Self-Healing: Check neighbors if target line is invalid": the previous
\* line, then the next line, then zeros on the target page
self_heal(metadata, line, target_width, target_height) ==
    IF line > 0 /\ Heals(metadata, line - 1, metadata[line + 1].v[1])
    THEN get_line_coordinates(metadata[line], target_width, target_height)
    ELSE IF line + 1 < Len(metadata) /\ Heals(metadata, line + 1, metadata[line + 1].v[1])
    THEN get_line_coordinates(metadata[line + 2], target_width, target_height)
    ELSE [page |-> metadata[line + 1].v[1], x1 |-> 0, y1 |-> 0, x2 |-> 0, y2 |-> 0]

get_highlight(metadata, line, target_width, target_height) ==
    IF metadata = <<>> \/ line >= Len(metadata) THEN Response(400, NoBody)
    ELSE IF line < 0 THEN get_highlight_wrapped(metadata, line, target_width, target_height)
    ELSE IF metadata[line + 1].kind # "list" \/ Len(metadata[line + 1].v) < 4
    THEN Response(400, NoBody)
    ELSE IF is_valid_line_metadata(metadata[line + 1])
    THEN Response(200, get_line_coordinates(metadata[line + 1], target_width,
                                            target_height))
    ELSE Response(200, self_heal(metadata, line, target_width, target_height))

-----------------------------------------------------------------------------
(* routes/structure.py over file_store.  A file of the output directory is *)
(* named by its suffix; files maps the suffixes written to their payloads. *)

ExtractionSuffix == <<>>

StructuredSuffix == <<"_", "s", "t", "r", "u", "c", "t", "u", "r", "e", "d">>

StSuffix == <<"_", "s", "t">>

DebugSuffix == <<"_", "s", "t", "_", "d", "e", "b", "u", "g">>

\* model_id.replace("/", "_").replace(":", "").replace(" ", "_")
SafeModelId(model_id) ==
    Flatten(List([i \in 1..Len(model_id) |->
        IF model_id[i] \in {"/", " "} THEN <<"_">>
        ELSE IF model_id[i] = ":" THEN <<>>
        ELSE <<model_id[i]>>]))

\* `if model_id:` on Optional[str]
HasModel(model_id) == ~IsNone(model_id) /\ model_id[1] # <<>>

\* the model-specific suffix whenever a model_id is given
SuffixFor(base, model_id) ==
    IF HasModel(model_id) THEN base \o <<"_">> \o SafeModelId(model_id[1]) ELSE base

StructuredPayload(items) == [kind |-> "structured", content |-> items]

StPayload(rows) == [kind |-> "st", content |-> rows]

DebugPayload(debug_info) == [kind |-> "debug", content |-> debug_info]

\* file_store.save_json_output(whisper_hash, data, suffix)
save_json_output(stored, data, suffix) ==
    [s \in DOMAIN stored \cup {suffix} |-> IF s = suffix THEN data ELSE stored[s]]

\* The try block after the structured payload is saved: the rows, then the
\* debug information; nothing when build_st_rows raises.
SaveRows(stored, built, st_suffix, debug_suffix) ==
    IF built.raised THEN stored
    ELSE save_json_output(save_json_output(stored, StPayload(built.rows), st_suffix),
                          DebugPayload(built.debug_info), debug_suffix)

\* The three saves of a handler
SaveAll(stored, items, structured_suffix, st_suffix, debug_suffix) ==
    SaveRows(save_json_output(stored, StructuredPayload(items), structured_suffix),
             build_st_rows(items), st_suffix, debug_suffix)

Handled(stored, status) == [files |-> stored, status |-> status]

\* structure_document (POST /structure/{whisper_hash}); request.structured
\* is what the structuring service gives for the request.  A stored
\* extraction always holds result_text and line_metadata, so the 400 answer
\* for an extraction without them has no case here.
post_structure(stored, request) ==
    IF ExtractionSuffix \notin DOMAIN stored THEN Handled(stored, 404)
    ELSE IF IsNone(request.structured) THEN Handled(stored, 500)
    ELSE IF ~request.save THEN Handled(stored, 200)
    ELSE Handled(SaveAll(stored, request.structured[1],
                         SuffixFor(StructuredSuffix, request.model_id),
                         SuffixFor(StSuffix, request.model_id),
                         SuffixFor(DebugSuffix, request.model_id)), 200)

\* update_structured_document (PUT /structure/{whisper_hash})
put_structure(stored, request) ==
    IF StructuredSuffix \notin DOMAIN stored THEN Handled(stored, 404)
    ELSE Handled(SaveAll(stored, request.items, StructuredSuffix, StSuffix, DebugSuffix),
                 200)

\* The structuring the routes call: LLMService.structure_document(raw_text,
\* line_metadata, model_id=...), which gives a dictionary with the flat
\* tagged items under "items", or raises.
Structured(items) == Some(items)

StructuringFailed == None

\* A request of the script
Request(op, model_id, save, structured, items, line, target_width, target_height) ==
    [op |-> op, model_id |-> model_id, save |-> save, structured |-> structured,
     items |-> items, line |-> line, target_width |-> target_width,
     target_height |-> target_height]

PostRequest(model_id, save, structured) ==
    Request("POST", model_id, save, structured, <<>>, 0, 0, 0)

PutRequest(items) == Request("PUT", None, TRUE, None, items, 0, 0, 0)

HighlightRequest(line, target_width, target_height) ==
    Request("GET", None, TRUE, None, <<>>, line, target_width, target_height)

-----------------------------------------------------------------------------
(* LLMService.structure_document, one request: the steps in code order.    *)

\* Step 1: standardized_metadata = metadata_service.standardize_metadata(...)
Standardize ==
    /\ pc = "received"
    /\ standardized_metadata' = standardize_metadata(line_metadata)
    /\ pc' = "standardized"
    /\ UNCHANGED <<requests, files, response, served>>
    /\ UNCHANGED <<line_metadata, raw_fields, normalized, claims, claim_warnings,
                   assignment_traces, ignored_lines, groups, unmapped_fields,
                   label_collisions, highlight_data, invalid_refs,
                   missing_metadata, field_refs,
                   report_info, field_confidence, strict, dropped_fields,
                   source_refs>>

\* Step 3: normalization_service.normalize_fields(raw_fields, ignored_lines=[])
Normalize ==
    /\ pc = "standardized"
    /\ \E normalized_fields \in {normalize_fields(raw_fields, <<>>)} :
           /\ normalized' = normalized_fields
           /\ label_collisions' = detect_label_collisions(normalized_fields)
           /\ field_confidence' = FieldConfidence(normalized_fields)
    /\ unmapped_fields' = UnmappedFields(raw_fields, <<>>)
    /\ pc' = "normalized"
    /\ UNCHANGED <<requests, files, response, served>>
    /\ UNCHANGED <<line_metadata, raw_fields, standardized_metadata, claims,
                   claim_warnings, assignment_traces, ignored_lines, groups,
                   highlight_data, invalid_refs, missing_metadata, field_refs,
                   report_info, strict, dropped_fields, source_refs>>

\* Step 4: grouping_service.group_fields(normalized_fields, standardized_metadata)
Group ==
    /\ pc = "normalized"
    /\ \E grouped_data \in {group_fields(normalized, standardized_metadata)} :
           /\ claims' = grouped_data.claims
           /\ claim_warnings' = grouped_data.claim_warnings
           /\ assignment_traces' = grouped_data.assignment_traces
           /\ ignored_lines' = grouped_data.ignored_lines
           /\ groups' = grouped_data.groups
           /\ report_info' = grouped_data.report_info
    /\ pc' = "grouped"
    /\ UNCHANGED <<requests, files, response, served>>
    /\ UNCHANGED <<line_metadata, raw_fields, standardized_metadata, normalized,
                   unmapped_fields, label_collisions, highlight_data, invalid_refs,
                   missing_metadata, field_refs,
                   field_confidence, strict, dropped_fields, source_refs>>

\* "Re-normalize with ignored lines to filter out noise": the normalized
\* fields, unmapped fields and collisions the later steps read; grouped_data
\* is not computed again, and the original field_confidence is kept.
Renormalize ==
    /\ pc = "grouped"
    /\ \E normalized_fields \in {IF ignored_lines # <<>>
                                THEN normalize_fields(raw_fields, ignored_lines)
                                ELSE normalized} :
           /\ normalized' = normalized_fields
           /\ label_collisions' = IF ignored_lines # <<>>
                                  THEN detect_label_collisions(normalized_fields)
                                  ELSE label_collisions
    /\ unmapped_fields' = IF ignored_lines # <<>>
                          THEN UnmappedFields(raw_fields, ignored_lines)
                          ELSE unmapped_fields
    /\ pc' = "renormalized"
    /\ UNCHANGED <<requests, files, response, served>>
    /\ UNCHANGED <<line_metadata, raw_fields, standardized_metadata, claims,
                   claim_warnings, assignment_traces, ignored_lines, groups,
                   highlight_data, invalid_refs, missing_metadata, field_refs,
                   report_info, field_confidence, strict, dropped_fields,
                   source_refs>>

\* "Apply strict mode filtering if enabled": the normalized fields the later
\* steps read are the kept ones; grouped_data is not computed again.
ApplyStrictMode ==
    /\ pc = "renormalized"
    /\ \E applied \in {IF strict
                        THEN apply_strict_mode(normalized, field_confidence,
                                               label_collisions)
                        ELSE [filtered_fields |-> normalized,
                              dropped_fields |-> <<>>]} :
           /\ normalized' = applied.filtered_fields
           /\ dropped_fields' = applied.dropped_fields
    /\ pc' = "filtered"
    /\ UNCHANGED <<requests, files, response, served>>
    /\ UNCHANGED <<line_metadata, raw_fields, standardized_metadata, claims,
                   claim_warnings, assignment_traces, ignored_lines, groups,
                   unmapped_fields, label_collisions, highlight_data, invalid_refs,
                   missing_metadata, field_refs, report_info, field_confidence,
                   strict, source_refs>>

\* Step 5: self._build_flat_highlights(normalized_fields, standardized_metadata).
\* An IndexError ends the request.
BuildHighlights ==
    /\ pc = "filtered"
    /\ \E built \in {build_flat_highlights(normalized, standardized_metadata)} :
           IF built.raised
           THEN /\ pc' = "raised"
                /\ UNCHANGED <<highlight_data, invalid_refs, missing_metadata>>
           ELSE /\ pc' = "highlighted"
                /\ highlight_data' = built.highlight_data
                /\ invalid_refs' = built.invalid_refs
                /\ missing_metadata' = built.missing_metadata
    /\ UNCHANGED <<requests, files, response, served>>
    /\ UNCHANGED <<line_metadata, raw_fields, standardized_metadata, normalized,
                   claims, claim_warnings, assignment_traces, ignored_lines, groups,
                   unmapped_fields, label_collisions, field_refs,
                   report_info, field_confidence, strict,
                   dropped_fields, source_refs>>

\* Step 6: field_refs = self._build_field_refs(normalized_fields)
BuildFieldRefs ==
    /\ pc = "highlighted"
    /\ field_refs' = build_field_refs(normalized)
    /\ pc' = "referenced"
    /\ UNCHANGED <<requests, files, response, served>>
    /\ UNCHANGED <<line_metadata, raw_fields, standardized_metadata, normalized,
                   claims, claim_warnings, assignment_traces, ignored_lines, groups,
                   unmapped_fields, label_collisions, highlight_data, invalid_refs,
                   missing_metadata, report_info, field_confidence, strict,
                   dropped_fields, source_refs>>

\* Step 7: source_refs = self._build_backward_compatible_source_refs(
\* field_refs, grouped_data, normalized_fields), and the response is returned.
BuildSourceRefs ==
    /\ pc = "referenced"
    /\ source_refs' = build_backward_compatible_source_refs(field_refs, report_info,
                                                            claims)
    /\ pc' = "returned"
    /\ UNCHANGED <<requests, files, response, served>>
    /\ UNCHANGED <<line_metadata, raw_fields, standardized_metadata, normalized,
                   claims, claim_warnings, assignment_traces, ignored_lines, groups,
                   unmapped_fields, label_collisions, highlight_data, invalid_refs,
                   missing_metadata, field_refs, report_info, field_confidence,
                   strict, dropped_fields>>

\* The structuring request has been answered
Answered == pc \in {"returned", "raised"}

\* What the route handlers leave alone
structuring == <<pc, line_metadata, raw_fields, standardized_metadata, normalized,
                 claims, claim_warnings, assignment_traces, ignored_lines, groups,
                 unmapped_fields, label_collisions, highlight_data, invalid_refs,
                 missing_metadata, field_refs, report_info, field_confidence,
                 strict, dropped_fields, source_refs>>

\* POST /structure/{whisper_hash}: the handler from the lookup of the stored
\* extraction to the last save.
PostStructure ==
    /\ Answered
    /\ requests # <<>>
    /\ Head(requests).op = "POST"
    /\ \E handled \in {post_structure(files, Head(requests))} :
           /\ files' = handled.files
           /\ response' = Response(handled.status, NoBody)
    /\ requests' = Tail(requests)
    /\ served' = Some(Head(requests))
    /\ UNCHANGED structuring

\* PUT /structure/{whisper_hash}
PutStructure ==
    /\ Answered
    /\ requests # <<>>
    /\ Head(requests).op = "PUT"
    /\ \E handled \in {put_structure(files, Head(requests))} :
           /\ files' = handled.files
           /\ response' = Response(handled.status, NoBody)
    /\ requests' = Tail(requests)
    /\ served' = Some(Head(requests))
    /\ UNCHANGED structuring

\* GET /highlight over the line_metadata of the stored extraction
GetHighlight ==
    /\ Answered
    /\ requests # <<>>
    /\ Head(requests).op = "GET"
    /\ response' = get_highlight(line_metadata, Head(requests).line,
                                 Head(requests).target_width,
                                 Head(requests).target_height)
    /\ requests' = Tail(requests)
    /\ served' = Some(Head(requests))
    /\ UNCHANGED files
    /\ UNCHANGED structuring

Next ==
    \/ Standardize
    \/ Normalize
    \/ Group
    \/ Renormalize
    \/ ApplyStrictMode
    \/ BuildHighlights
    \/ BuildFieldRefs
    \/ BuildSourceRefs
    \/ PostStructure
    \/ PutStructure
    \/ GetHighlight

\* The output directory after the extraction of the document was stored
Extracted == (ExtractionSuffix :> [kind |-> "extraction", content |-> <<>>])

\* One request of each route
EachRoute == <<PostRequest(None, TRUE, Structured(<<>>)), PutRequest(<<>>), HighlightRequest(0, 0, 0)>>

\* The state of a request that has just been received with its inputs, in a
\* process started with STRICT_EXTRACTION set to toggle, with the requests
\* that follow it.
ReceivedBefore(metadata, raw, toggle, script) ==
    /\ pc = "received"
    /\ requests = script
    /\ files = Extracted
    /\ response = Response(0, NoBody)
    /\ served = None
    /\ strict = toggle
    /\ line_metadata = metadata
    /\ raw_fields = raw
    /\ standardized_metadata = <<>>
    /\ normalized = <<>>
    /\ claims = <<>>
    /\ claim_warnings = <<>>
    /\ assignment_traces = <<>>
    /\ ignored_lines = <<>>
    /\ groups = <<>>
    /\ unmapped_fields = <<>>
    /\ label_collisions = <<>>
    /\ highlight_data = <<>>
    /\ invalid_refs = <<>>
    /\ missing_metadata = <<>>
    /\ field_refs = <<>>
    /\ report_info = <<>>
    /\ field_confidence = <<>>
    /\ dropped_fields = <<>>
    /\ source_refs = <<>>

ReceivedWith(metadata, raw, toggle) == ReceivedBefore(metadata, raw, toggle, EachRoute)

\* config.py: STRICT_EXTRACTION = os.getenv("STRICT_EXTRACTION", "false")...
Received(metadata, raw) == ReceivedWith(metadata, raw, FALSE)

-----------------------------------------------------------------------------
(* Bounded requests.  Every request is a list of raw items as the          *)
(* completion provider may return it, with line metadata as the OCR        *)
(* provider may return it.  Line numbers range over 0..MaxLine.            *)

MaxLine == 2

MaxAnchors == 3

MaxWindows == 2

MaxFields == 2

MaxNoiseLine == 3

MaxNoiseItems == 2

MaxMergeItems == 2

Lines == 0..MaxLine

HexDigits == <<"0", "1", "2", "3", "4", "5", "6", "7", "8", "9", "A", "B", "C", "D", "E", "F">>

\* The hex string marker of a line below 16, "0x0A" for 10
HexMarker(l) == StrMarker(<<"0", "x", "0", HexDigits[l + 1]>>)

Singles(L) == {<<IntMarker(l)>> : l \in L}

\* two-line lists in both listed orders
Pairs(L) == {p \in {<<IntMarker(a), IntMarker(b)>> : a, b \in L} : p[1].n # p[2].n}

AscPairs(L) == {p \in Pairs(L) : p[1].n < p[2].n}

\* two consecutive lines
AdjPairs(L) == {p \in Pairs(L) : p[2].n = p[1].n + 1}

HexSingles(L) == {<<HexMarker(l)>> : l \in L}

FloatSingles(L) == {<<FloatMarker(l, 0)>> : l \in L}

SeqsUpTo(S, n) == UNION {[1..k -> S] : k \in 1..n}

\* Lists of single-line lists with strictly ascending lines, 1..n long
AscSingles(L, n) ==
    {s \in SeqsUpTo(Singles(L), n) :
        \A i \in 1..(Len(s) - 1) : s[i][1].n < s[i + 1][1].n}

LblClaimNo == <<"C", "l", "a", "i", "m", " ", "N", "o">>

LblClaimant == <<"C", "l", "a", "i", "m", "a", "n", "t", " ", "N", "a", "m", "e">>

LblTotalPaid == <<"T", "o", "t", "a", "l", " ", "P", "a", "i", "d">>

\* Distinct values, so that a value names its occurrence: "C-1", "C-2", ...
\* for claim numbers and "v1", "v2", ... for the other fields.
AnchorValue(i) == <<"C", "-", HexDigits[i + 1]>>

FieldValue(i) == <<"v", HexDigits[i + 1]>>

AnchorItems(lineLists) ==
    [i \in 1..Len(lineLists) |-> RawField(LblClaimNo, AnchorValue(i), lineLists[i])]

FieldItems(label, lineLists) ==
    [i \in 1..Len(lineLists) |-> RawField(label, FieldValue(i), lineLists[i])]

\* Every line on a page of its own: line l on page l + 1.
PagePerLine(n) == [i \in 1..n |-> ListMeta(<<i, 0, i, 5, 5>>)]

\* Two lines to a page, in the legacy 4-number form: lines 0, 1 on page 1, ...
TwoLinesPerPage(n) == [i \in 1..n |-> ListMeta(<<((i - 1) \div 2) + 1, i, 5, 100>>)]

\* A page per line, the entry of line 1 missing.
PagePerLineGap(n) == [i \in 1..n |-> IF i = 2 THEN NoMeta ELSE ListMeta(<<i, 0, i, 5, 5>>)]

\* Requests for the anchor side of claim assembly: up to MaxAnchors claim
\* numbers whose line lists are single lines, two lines in either listed
\* order, a hex string or an integral float, and one claimant occurrence.
InitAnchors ==
    \E a \in SeqsUpTo(Singles(Lines) \cup Pairs(Lines)
                        \cup HexSingles({1}) \cup FloatSingles({1}), MaxAnchors),
       f \in Singles(Lines) \cup AscPairs(Lines) :
        Received(<<>>, AnchorItems(a) \o FieldItems(LblClaimant, <<f>>))

SpecAnchors == InitAnchors /\ [][Next]_vars

\* The line lists of the occurrences of SpecFields: single lines, two
\* consecutive lines, an unsorted list with a repeated line, a hex string.
FieldLineLists ==
    Singles(Lines) \cup AdjPairs(Lines)
        \cup {<<IntMarker(1), IntMarker(0), IntMarker(1)>>, <<HexMarker(1)>>}

\* Requests for the field side of claim assembly: up to MaxWindows
\* single-line anchors in reading order, up to MaxFields occurrences of one
\* key, with and without page metadata.
InitFields ==
    \E a \in AscSingles(Lines, MaxWindows),
       f \in SeqsUpTo(FieldLineLists, MaxFields),
       metadata \in {<<>>, PagePerLine(MaxLine + 1)} :
        Received(metadata, AnchorItems(a) \o FieldItems(LblClaimant, f))

SpecFields == InitFields /\ [][Next]_vars

ValLossRun == <<"L", "o", "s", "s", " ", "R", "u", "n">>

ValNA == <<"N", "A">>

\* runs of one or two consecutive lines of 0..MaxNoiseLine
NoiseLineLists == Singles(0..MaxNoiseLine) \cup AdjPairs(0..MaxNoiseLine)

\* Item i of a request without claim numbers: claimant, total paid, ... by
\* position, so that every item is its own key.
NoiseLabel(i) == IF i % 2 = 1 THEN LblClaimant ELSE LblTotalPaid

\* Requests for noise detection: no claim number, up to MaxNoiseItems items
\* carrying a long or a short repeated text on one or two lines each, over
\* three page layouts.
InitNoise ==
    \E items \in SeqsUpTo({ValLossRun, ValNA} \X NoiseLineLists, MaxNoiseItems),
       metadata \in {PagePerLine(MaxNoiseLine + 1), TwoLinesPerPage(MaxNoiseLine + 1),
                     PagePerLineGap(MaxNoiseLine + 1)} :
        Received(metadata,
                 [i \in 1..Len(items) |-> RawField(NoiseLabel(i), items[i][1], items[i][2])])

SpecNoise == InitNoise /\ [][Next]_vars

\* The line lists of SpecNoAnchor: single lines, a descending pair, a hex
\* string, and no line at all.
MergeLineLists ==
    Singles(Lines) \cup {<<IntMarker(2), IntMarker(0)>>, <<HexMarker(1)>>, <<>>}

\* Requests without a claim number: up to MaxMergeItems claimant and total
\* paid occurrences, each with a value of its own or an empty value.
InitNoAnchor ==
    \E items \in SeqsUpTo({LblClaimant, LblTotalPaid} \X BOOLEAN \X MergeLineLists,
                          MaxMergeItems) :
        Received(<<>>,
                 [i \in 1..Len(items) |->
                     RawField(items[i][1],
                              IF items[i][2] THEN FieldValue(i) ELSE <<>>,
                              items[i][3])])

SpecNoAnchor == InitNoAnchor /\ [][Next]_vars

ValC100 == <<"C", "-", "1", "0", "0">>

ValJaneDoe == <<"J", "a", "n", "e", " ", "D", "o", "e">>

ValC200 == <<"C", "-", "2", "0", "0">>

ValJohnRoe == <<"J", "o", "h", "n", " ", "R", "o", "e">>

Val500 == <<"5", "0", "0">>

\* The four raw items of the two-claim scenario
ScenarioItems ==
    <<RawField(LblClaimNo, ValC100, <<IntMarker(10)>>),
      RawField(LblClaimant, ValJaneDoe, <<IntMarker(11)>>),
      RawField(LblClaimNo, ValC200, <<IntMarker(50)>>),
      RawField(LblClaimant, ValJohnRoe, <<IntMarker(51)>>)>>

\* The lines a further field is tried on: around both anchors and beyond
FurtherLines == {9, 10, 11, 49, 50, 51, 60}

\* The scenario request with no page metadata: the four items in any order
\* of the list, alone or followed by a further Total Paid field on one line.
InitScenario ==
    \E order \in Permutations(1..4),
       further \in {<<>>} \cup {<<RawField(LblTotalPaid, Val500, <<IntMarker(l)>>)>> :
                                   l \in FurtherLines} :
        Received(<<>>, [i \in 1..4 |-> ScenarioItems[order[i]]] \o further)

SpecScenario == InitScenario /\ [][Next]_vars


\* The text of every canonical key of the synonym table
KeyText(key) ==
    CASE key = "claimNumber" -> <<"c", "l", "a", "i", "m", "N", "u", "m", "b", "e", "r">>
      [] key = "policyNumber" -> <<"p", "o", "l", "i", "c", "y", "N", "u", "m", "b", "e", "r">>
      [] key = "policyNumberHeader" -> <<"p", "o", "l", "i", "c", "y", "N", "u", "m", "b", "e", "r", "H", "e", "a", "d", "e", "r">>
      [] key = "claimant" -> <<"c", "l", "a", "i", "m", "a", "n", "t">>
      [] key = "dateOfLoss" -> <<"d", "a", "t", "e", "O", "f", "L", "o", "s", "s">>
      [] key = "reportedDate" -> <<"r", "e", "p", "o", "r", "t", "e", "d", "D", "a", "t", "e">>
      [] key = "runDate" -> <<"r", "u", "n", "D", "a", "t", "e">>
      [] key = "claimStatus" -> <<"c", "l", "a", "i", "m", "S", "t", "a", "t", "u", "s">>
      [] key = "lossDescription" -> <<"l", "o", "s", "s", "D", "e", "s", "c", "r", "i", "p", "t", "i", "o", "n">>
      [] key = "coverageSection" -> <<"c", "o", "v", "e", "r", "a", "g", "e", "S", "e", "c", "t", "i", "o", "n">>
      [] key = "causeOfLoss" -> <<"c", "a", "u", "s", "e", "O", "f", "L", "o", "s", "s">>
      [] key = "totalPaid" -> <<"t", "o", "t", "a", "l", "P", "a", "i", "d">>
      [] key = "paidAlae" -> <<"p", "a", "i", "d", "A", "l", "a", "e">>
      [] key = "totalIncurred" -> <<"t", "o", "t", "a", "l", "I", "n", "c", "u", "r", "r", "e", "d">>
      [] key = "totalReserves" -> <<"t", "o", "t", "a", "l", "R", "e", "s", "e", "r", "v", "e", "s">>
      [] key = "insured" -> <<"i", "n", "s", "u", "r", "e", "d">>

\* The canonical keys the synonym table maps to
CanonicalKeys == {FIELD_SYNONYMS[i].canonical : i \in SynIdx}

\* Labels as the completion provider may write them: in other case, with
\* punctuation, a parenthetical unit, surrounding blanks, abbreviated,
\* embedded in other words, empty, or unknown.
OtherLabels ==
    {<<"C", "l", "a", "i", "m", " ", "N", "u", "m", "b", "e", "r", " ", ":">>,
     <<"T", "o", "t", "a", "l", " ", "P", "a", "i", "d", " ", "(", "U", "S", "D", ")">>,
     <<"P", "o", "l", "i", "c", "y", " ", "N", "o", ".">>,
     <<"c", "l", "a">>,
     <<"c", "l">>,
     <<"m", "y", " ", "s", "t", "a", "t", "u", "s">>,
     <<"x", "d", "e", "s", "c">>,
     <<"a", "d", "i", "v">>,
     <<"l", "o", "b", " ", "x">>,
     <<>>,
     <<":">>,
     <<"R", "e", "p", "o", "r", "t", " ", "D", "a", "t", "e">>,
     <<"d", "a", "t", "e", "_", "o", "f", "_", "l", "o", "s", "s">>,
     <<"I", "n", "s", "u", "r", "e", "d", "(", "s", ")">>,
     <<"P", "a", "i", "d", " ", "-", " ", "A", "L", "A", "E">>,
     <<" ", " ", "C", "l", "a", "i", "m", "a", "n", "t", " ", " ">>,
     <<"A", "m", "o", "u", "n", "t">>,
     <<"(", "U", "S", "D", ")">>}

MaxLabelItems == 1

\* Requests for label normalization: up to MaxLabelItems items, each with
\* the text of a canonical key or another label, on line 0, no metadata.
InitLabels ==
    \E labels \in SeqsUpTo({KeyText(k) : k \in CanonicalKeys} \cup OtherLabels,
                           MaxLabelItems) :
        Received(<<>>, [i \in 1..Len(labels) |->
                           RawField(labels[i], FieldValue(i), <<IntMarker(0)>>)])

SpecLabels == InitLabels /\ [][Next]_vars

\* The hex string marker of a line below 256, "0x33" for 51
WideHexMarker(l) ==
    StrMarker(<<"0", "x", HexDigits[(l \div 16) + 1], HexDigits[(l % 16) + 1]>>)

LblClaimantShort == <<"C", "l", "a", "i", "m", "a", "n", "t">>

MaxCollisionItems == 2

\* Lines at the threshold: a gap of CollisionGap (one region) and of
\* CollisionGap + 1 (two regions)
CollisionLines == {0, CollisionGap, CollisionGap + 1, 2 * CollisionGap + 2}

CollisionLineLists ==
    Singles(CollisionLines)
        \cup {<<IntMarker(0), IntMarker(CollisionGap + 1)>>,
              <<WideHexMarker(CollisionGap + 1)>>}

\* Requests for collision detection: up to MaxCollisionItems items under
\* two raw labels of the same key, on lines around the threshold, written
\* as integers or as hex strings; no metadata.
InitCollisions ==
    \E labels \in SeqsUpTo({LblClaimant, LblClaimantShort}, MaxCollisionItems) :
        \E lineLists \in [1..Len(labels) -> CollisionLineLists] :
            Received(<<>>, [i \in 1..Len(labels) |->
                               RawField(labels[i], FieldValue(i), lineLists[i])])

SpecCollisions == InitCollisions /\ [][Next]_vars

MaxMetaLen == 2

\* A dictionary entry from the keys it carries; the other keys are missing
DictOf(d) == DictMeta([k \in MetaKeys |-> IF k \in DOMAIN d THEN Some(d[k]) ELSE None])

\* A dictionary with the five primary keys
PrimaryDict(page, x, y, width, height) ==
    DictOf([page |-> page, x |-> x, y |-> y, width |-> width, height |-> height])

\* [page, x, y, width, height] entries (and one with a sixth element):
\* page 0 or 1, x and y zero or not, dimensions positive, zero and negative.
\* Numbers are integers of pixel size, which float() keeps as they are.
FiveLists ==
    {ListMeta(<<page, x, 3, width, height>>) :
        page \in {0, 1}, x \in {0, 2}, width \in {0, 5}, height \in {-1, 4}}
        \cup {ListMeta(<<1, 2, 0, 5, 4>>), ListMeta(<<1, 2, 3, 5, 4, 9>>)}

\* [page, base_y, height, page_height] entries: the baseline below, at and
\* above the height; a zero height; a zero page height
LegacyLists ==
    {ListMeta(<<1, base_y, 3, 100>>) : base_y \in {0, 2, 3, 7}}
        \cup {ListMeta(<<1, 7, 0, 100>>), ListMeta(<<1, 7, 3, 0>>),
              ListMeta(<<0, 7, 3, 100>>)}

\* Dictionary entries: primary keys with page, x or y zero, aliases, a key
\* missing, a text where a number belongs, a zero width, and a zero under
\* the primary key with another number under its alias
DictEntries ==
    {PrimaryDict(NumVal(1), NumVal(2), NumVal(3), NumVal(5), NumVal(4)),
     PrimaryDict(NumVal(0), NumVal(2), NumVal(3), NumVal(5), NumVal(4)),
     PrimaryDict(NumVal(1), NumVal(0), NumVal(3), NumVal(5), NumVal(4)),
     PrimaryDict(NumVal(1), NumVal(2), NumVal(0), NumVal(5), NumVal(4)),
     PrimaryDict(NumVal(1), TextVal, NumVal(3), NumVal(5), NumVal(4)),
     PrimaryDict(NumVal(1), NumVal(2), NumVal(3), NumVal(0), NumVal(4)),
     DictOf([p |-> NumVal(1), left |-> NumVal(2), top |-> NumVal(3),
             w |-> NumVal(5), h |-> NumVal(4)]),
     DictOf([page |-> NumVal(1), x |-> NumVal(2), y |-> NumVal(3), width |-> NumVal(5)]),
     DictOf([page |-> NumVal(1), x |-> NumVal(0), left |-> NumVal(2), y |-> NumVal(3),
             width |-> NumVal(5), height |-> NumVal(4)])}

MetaEntries ==
    FiveLists \cup LegacyLists \cup DictEntries
        \cup {NoMeta, OtherMeta, ListMeta(<<1, 2, 3>>)}

\* Requests for metadata standardization: up to MaxMetaLen entries of any
\* shape, and one claimant item on line 0.
InitMetadata ==
    \E metadata \in SeqsUpTo(MetaEntries, MaxMetaLen) :
        Received(metadata, <<RawField(LblClaimant, FieldValue(1), <<IntMarker(0)>>)>>)

SpecMetadata == InitMetadata /\ [][Next]_vars

MaxMarkerItems == 2

\* Raw line markers as the completion provider may write them: integers
\* and floats, negative and non-integral ones, hex strings with and
\* without the 0x prefix, decimal strings, signed strings, padded strings,
\* and strings that are no number.
MarkerForms ==
    {IntMarker(0), IntMarker(26), IntMarker(0 - 1),
     FloatMarker(26, 0), FloatMarker(26, 1), FloatMarker(0 - 1, 0),
     StrMarker(<<"0", "x", "1", "A">>), StrMarker(<<"0", "X", "1", "a">>),
     StrMarker(<<"1", "A">>), StrMarker(<<"2", "6">>),
     StrMarker(<<" ", "2", "6", " ">>), StrMarker(<<"+", "2", "6">>),
     StrMarker(<<"-", "1">>), StrMarker(<<"-", "1", "A">>),
     StrMarker(<<"-", "A">>), StrMarker(<<"-", "0", "x", "A">>),
     StrMarker(<<"z", "z">>), StrMarker(<<>>), StrMarker(<<"0", "x">>),
     StrMarker(<<"2", ".", "5">>)}

\* Requests for line-number conversion: up to MaxMarkerItems claimant
\* items, each on one marker of any form; no metadata.
InitMarkers ==
    \E markers \in SeqsUpTo(MarkerForms, MaxMarkerItems) :
        Received(<<>>, [i \in 1..Len(markers) |->
                           RawField(LblClaimant, FieldValue(i), <<markers[i]>>)])

SpecMarkers == InitMarkers /\ [][Next]_vars

MaxHighlightItems == 2

\* The metadata of line i of a page: a rectangle of its own
LineRect(i) == ListMeta(<<1, 0, 10 * i, 5, 5>>)

\* Three lines: the second without metadata, the third with the rectangle
\* of the first
ShortMeta == <<LineRect(0), NoMeta, LineRect(0)>>

\* Ten lines, each with its rectangle
LongMeta == [i \in 1..10 |-> LineRect(i - 1)]

\* Line lists of an occurrence: a line, a line twice, two lines in both
\* orders, a line without metadata, a hex marker, a marker that is no
\* number, a signed hex marker, and a line beyond the short list
HighlightLineLists ==
    {<<IntMarker(0)>>, <<IntMarker(0), IntMarker(0)>>,
     <<IntMarker(0), IntMarker(2)>>, <<IntMarker(2), IntMarker(0)>>,
     <<IntMarker(1)>>, <<HexMarker(2)>>, <<StrMarker(<<"z", "z">>)>>,
     <<StrMarker(<<"-", "A">>)>>, <<IntMarker(7)>>}

\* Requests for the highlight view: up to MaxHighlightItems items under
\* two keys, no claim number, with no metadata, three lines or ten.
InitHighlights ==
    \E metadata \in {<<>>, ShortMeta, LongMeta} :
        \E labels \in SeqsUpTo({LblClaimant, LblTotalPaid}, MaxHighlightItems) :
            \E lineLists \in [1..Len(labels) -> HighlightLineLists] :
                Received(metadata, [i \in 1..Len(labels) |->
                                       RawField(labels[i], FieldValue(i), lineLists[i])])

SpecHighlights == InitHighlights /\ [][Next]_vars

MaxSourceAnchors == 2

MaxSourceFields == 2

SignedHexMarker == StrMarker(<<"-", "A">>)

\* Line lists of SpecSourceRefs: a line, two lines, a signed hex marker and
\* no line at all
SourceLineLists ==
    Singles(Lines) \cup {<<IntMarker(0), IntMarker(1)>>, <<SignedHexMarker>>, <<>>}

\* Requests for the path map: up to MaxSourceAnchors claim numbers (or
\* none) and up to MaxSourceFields claimant and total paid occurrences, with
\* no metadata or ten lines of it.
InitSourceRefs ==
    \E a \in SeqsUpTo(Singles(Lines) \cup {<<SignedHexMarker>>}, MaxSourceAnchors) \cup {<<>>},
       f \in SeqsUpTo({LblClaimant, LblTotalPaid} \X SourceLineLists, MaxSourceFields),
       metadata \in {<<>>, LongMeta} :
        Received(metadata,
                 AnchorItems(a) \o [i \in 1..Len(f) |->
                                       RawField(f[i][1], FieldValue(i), f[i][2])])

SpecSourceRefs == InitSourceRefs /\ [][Next]_vars

MaxStrictItems == 3

\* Two lines of one region and a line beyond the collision gap
StrictLines == {0, 1, CollisionGap + 1}

\* Requests for strict mode: the toggle on or off, up to MaxStrictItems
\* items under three labels, each on one line; no metadata.
InitStrict ==
    \E toggle \in BOOLEAN,
       items \in SeqsUpTo({LblClaimNo, LblClaimant, LblTotalPaid} \X Singles(StrictLines),
                          MaxStrictItems) :
        ReceivedWith(<<>>,
                     [i \in 1..Len(items) |->
                         RawField(items[i][1], FieldValue(i), items[i][2])],
                     toggle)

SpecStrict == InitStrict /\ [][Next]_vars

\* Tagged items as the editing route validates them: every key present,
\* texts for the key, the value and the type, a list of integers for the lines
Tagged(source_key, canonical_name, value, line_numbers) ==
    StItem(JStr(source_key), JStr(canonical_name), JStr(value), JList(line_numbers), JStr(<<>>))

\* The requests that follow the structuring when a document is edited: a
\* highlight, the first structuring of the stored text, then the edit
EditScript(items) ==
    <<HighlightRequest(0, 0, 0), PostRequest(None, TRUE, Structured(<<>>)), PutRequest(items)>>

TotalPaidKey == <<"t", "o", "t", "a", "l", "P", "a", "i", "d">>

ExpensesPaidKey == <<"e", "x", "p", "e", "n", "s", "e", "s", "P", "a", "i", "d">>

MaxOverflowItems == 4

MaxRun == 7

\* A claim number on line 0 and items on the lines after it: total paid
\* under its name, capitalised, with an empty value, and under the name of
\* its second column
OverflowItems ==
    {Tagged(<<"k">>, ClaimNumberKey, <<"c">>, <<0>>),
     Tagged(<<"p">>, TotalPaidKey, <<"a">>, <<1>>),
     Tagged(<<"q">>, <<"T">> \o Tail(TotalPaidKey), <<"b">>, <<2>>),
     Tagged(<<"s">>, TotalPaidKey, <<>>, <<1>>),
     Tagged(<<"t">>, TotalPaidKey \o <<"2">>, <<"f">>, <<1>>)}

\* A claim number followed by n items of expenses paid with distinct values
ExpensesRun(n) ==
    <<Tagged(<<"k">>, ClaimNumberKey, <<"c">>, <<0>>)>>
    \o [i \in 1..n |-> Tagged(<<"x">>, ExpensesPaidKey, <<"v", StSuffixes[((i - 1) % 5) + 1]>> \o [j \in 1..i |-> "v"], <<i>>)]

\* Edits with up to MaxOverflowItems of these items, and with the runs
InitOverflow ==
    \E items \in SeqsUpTo(OverflowItems, MaxOverflowItems)
                 \cup {ExpensesRun(n) : n \in 1..MaxRun} :
        ReceivedBefore(<<>>, <<>>, FALSE, EditScript(items))

SpecOverflow == InitOverflow /\ [][Next]_vars

MaxRowItems == 3

ClaimantKey == <<"c", "l", "a", "i", "m", "a", "n", "t">>

\* The kinds of items of an edit with several claims: claim numbers on line
\* 0 (one of them without a value, one known by its type and named as the
\* claimant) and on line 3; total paid on line 1, across lines 2 and 4, and
\* without a line; a name that is no column; no name.
RowItems ==
    {Tagged(<<>>, ClaimNumberKey, <<"c">>, <<0>>),
     Tagged(<<>>, ClaimNumberKey, <<>>, <<0>>),
     StItem(JStr(<<>>), JStr(ClaimantKey), JStr(<<"d">>), JList(<<0>>), JStr(ClaimNumberPrefix)),
     Tagged(<<>>, ClaimNumberKey, <<"e">>, <<3>>),
     Tagged(<<>>, TotalPaidKey, <<"a">>, <<1>>),
     Tagged(<<>>, TotalPaidKey, <<"b">>, <<2, 4>>),
     Tagged(<<>>, TotalPaidKey, <<"n">>, <<>>),
     Tagged(<<>>, <<"b", "o", "g", "u", "s">>, <<"g">>, <<4>>),
     Tagged(<<>>, <<>>, <<"h">>, <<1>>)}

\* The source key of the item at place i
ItemKey(i) == JStr([j \in 1..i |-> "k"])

\* Edits with up to MaxRowItems of these items under distinct source keys
InitRows ==
    \E items \in SeqsUpTo(RowItems, MaxRowItems) :
        ReceivedBefore(<<>>, <<>>, FALSE,
                       EditScript([i \in 1..Len(items) |->
                                      [items[i] EXCEPT !.source_key = ItemKey(i)]]))

SpecRows == InitRows /\ [][Next]_vars

MaxTaggedItems == 2

\* The requests that follow the structuring when a document is structured
\* anew: a highlight, an edit that finds nothing stored, then the structuring
\* with the items the service gives
StructureScript(model_id, items) ==
    <<HighlightRequest(0, 0, 0), PutRequest(<<>>), PostRequest(model_id, TRUE, Structured(items))>>

\* Tagged items as a completion may give them: a claim number with a text,
\* with null and with a number for its value; total paid with a null value,
\* without a value, with a number for its lines; a number and null for the
\* canonical name.
TaggedItems ==
    {Tagged(<<"k">>, ClaimNumberKey, <<"c">>, <<0>>),
     StItem(JStr(<<"k">>), JStr(ClaimNumberKey), JNull, JList(<<0>>), JStr(<<>>)),
     StItem(JStr(<<"k">>), JStr(ClaimNumberKey), JNum(5), JList(<<0>>), JStr(<<>>)),
     StItem(JStr(<<"p">>), JStr(TotalPaidKey), JNull, JList(<<1>>), JStr(<<>>)),
     StItem(JStr(<<"p">>), JStr(TotalPaidKey), JMissing, JList(<<1>>), JStr(<<>>)),
     StItem(JStr(<<"p">>), JStr(TotalPaidKey), JStr(<<"a">>), JNum(1), JStr(<<>>)),
     StItem(JStr(<<"p">>), JNum(7), JStr(<<"a">>), JList(<<1>>), JStr(<<>>)),
     StItem(JStr(<<"p">>), JNull, JStr(<<"a">>), JList(<<1>>), JMissing)}

InitTagged ==
    \E items \in SeqsUpTo(TaggedItems, MaxTaggedItems) :
        ReceivedBefore(<<>>, <<>>, FALSE, StructureScript(None, items))

SpecTagged == InitTagged /\ [][Next]_vars

MaxEndpointLines == 3

\* Viewport of the highlight requests
Viewport == 8

\* Stored entries [page, base_y, height, page_height]: two lines of page 1
\* and one of page 2 with positive height and page height, a line of page 1
\* without height, one without page height, and a missing entry
EndpointEntries ==
    {ListMeta(<<1, 4, 2, 8>>), ListMeta(<<1, 7, 1, 8>>), ListMeta(<<2, 5, 2, 8>>),
     ListMeta(<<1, 4, 0, 8>>), ListMeta(<<1, 4, 2, 0>>), NoMeta}

\* Documents of up to MaxEndpointLines stored lines, and a highlight request
\* for one of the lines after the structuring routes have been served
InitEndpoint ==
    \E metadata \in SeqsUpTo(EndpointEntries, MaxEndpointLines) :
        \E line \in 0..(MaxEndpointLines - 1) :
            ReceivedBefore(metadata, <<>>, FALSE,
                           <<PostRequest(None, TRUE, Structured(<<>>)), PutRequest(<<>>),
                             HighlightRequest(line, Viewport, Viewport)>>)

SpecEndpoint == InitEndpoint /\ [][Next]_vars

MaxReportItems == 4

LblInsured == <<"I", "n", "s", "u", "r", "e", "d">>

\* Values of a report-level item: two texts, the first with a blank before
\* it, and no text
ReportValues == {<<"a">>, <<"b">>, <<" ", "a">>, <<>>}

\* Requests with up to MaxReportItems items, insured names, claim numbers
\* and claimants, the item at place i on line i - 1; no metadata.
InitReport ==
    \E items \in SeqsUpTo(({LblInsured} \X ReportValues)
                              \cup {<<LblClaimNo, <<"a">>>>, <<LblClaimant, <<"b">>>>},
                          MaxReportItems) :
        Received(<<>>, [i \in 1..Len(items) |->
                           RawField(items[i][1], items[i][2], <<IntMarker(i - 1)>>)])

SpecReport == InitReport /\ [][Next]_vars

MaxModelRequests == 3

\* Items of a structuring: one claim, one claim with its total paid, and a
\* claim number with a null value
OneClaim == <<Tagged(<<"k">>, ClaimNumberKey, <<"c">>, <<0>>)>>

ClaimWithPaid == OneClaim \o <<Tagged(<<"p">>, TotalPaidKey, <<"a">>, <<1>>)>>

NullClaim == <<StItem(JStr(<<"k">>), JStr(ClaimNumberKey), JNull, JList(<<0>>), JStr(<<>>))>>

\* The requests of a comparison of models: structurings without model_id
\* (saved, not saved, failing, with items the row builder rejects), with an
\* empty model_id and with the model ids "m", "a/b c:" and "debug", an edit
\* and a highlight
ModelRequests ==
    {PostRequest(None, TRUE, Structured(OneClaim)),
     PostRequest(None, FALSE, Structured(ClaimWithPaid)),
     PostRequest(None, TRUE, StructuringFailed),
     PostRequest(None, TRUE, Structured(NullClaim)),
     PostRequest(Some(<<>>), TRUE, Structured(ClaimWithPaid)),
     PostRequest(Some(<<"m">>), TRUE, Structured(ClaimWithPaid)),
     PostRequest(Some(<<"a", "/", "b", " ", "c", ":">>), TRUE, Structured(OneClaim)),
     PostRequest(Some(<<"d", "e", "b", "u", "g">>), TRUE, Structured(ClaimWithPaid)),
     PutRequest(ClaimWithPaid),
     HighlightRequest(0, 0, 0)}

InitModels ==
    \E script \in SeqsUpTo(ModelRequests, MaxModelRequests) :
        ReceivedBefore(<<>>, <<>>, FALSE, script)

SpecModels == InitModels /\ [][Next]_vars

-----------------------------------------------------------------------------
(* Properties of the returned claims.  They are stated over the request    *)
(* (normalized, standardized_metadata) and the result (claims,             *)
(* claim_warnings, ignored_lines, groups) once the request is grouped.     *)

Grouped == pc = "grouped"

\* The resolved line numbers of an occurrence, as a set
ResolvedLines(field) == Range(ConvertedLines(field.lines))

\* The claimNumber occurrences of the request, in input order
Anchors == FieldList(normalized, "claimNumber")

\* The entries of the claim-level keys other than claimNumber
OtherEntries ==
    {e \in 1..Len(normalized) :
        normalized[e].key \notin report_level_fields \cup {"claimNumber"}}

\* The minimum resolved line of every anchor that has one: L0, L1, ...
AnchorStarts ==
    {Min(ResolvedLines(Anchors[i])) :
        i \in {i \in 1..Len(Anchors) : ResolvedLines(Anchors[i]) # {}}}

\* Line l is in the window that starts at the anchor line start: at or after
\* it and before every later anchor line.
InWindowOf(start, l) ==
    start <= l /\ \A s \in AnchorStarts : s > start => l < s

\* The minimum resolved line of the anchor of a returned claim
ClaimStart(claim) == Min(Range(claim.line_refs["claimNumber"]))

NonAnchorKeys(claim) == DOMAIN claim.vals \ {"claimNumber"}

\* C1: every field placed in the claim of anchor i has all of its resolved
\* line numbers in [Li, Li+1), the anchors ordered by minimum line number.
C1_WindowContainment ==
    Grouped =>
        \A c \in 1..Len(claims) :
            \A k \in DOMAIN claims[c].line_refs \ {"claimNumber"} :
                \A l \in Range(claims[c].line_refs[k]) :
                    InWindowOf(ClaimStart(claims[c]), l)

\* C2: no field occurrence has its value placed in two of the returned
\* claims (the occurrences of a request carry distinct values).
C2_Exclusive ==
    Grouped =>
        \A c1, c2 \in 1..Len(claims) :
            c1 # c2 =>
                \A k \in NonAnchorKeys(claims[c1]) \cap NonAnchorKeys(claims[c2]) :
                    claims[c1].vals[k] # claims[c2].vals[k]

\* Some other claim-level field has resolved lines, all inside the window
\* that starts at the anchor line start.
HasFieldInWindow(start) ==
    \E e \in OtherEntries :
        \E f \in 1..Len(normalized[e].list) :
            /\ ResolvedLines(normalized[e].list[f]) # {}
            /\ \A l \in ResolvedLines(normalized[e].list[f]) : InWindowOf(start, l)

\* The anchors that resolve to a line no other anchor resolves to
SoleAnchors ==
    {i \in 1..Len(Anchors) :
        /\ ResolvedLines(Anchors[i]) # {}
        /\ \A j \in 1..Len(Anchors) :
              (j # i /\ ResolvedLines(Anchors[j]) # {})
                  => Min(ResolvedLines(Anchors[j])) # Min(ResolvedLines(Anchors[i]))}

\* C3: exactly one claim for each claimNumber occurrence with a field in its
\* window and none for the others, in ascending order of the anchors'
\* minimum resolved line, whatever the form of the anchor's line markers.
C3_OneClaimPerAnchor ==
    Grouped =>
        /\ \A i \in SoleAnchors :
              Cardinality({c \in 1..Len(claims) :
                              claims[c].vals["claimNumber"] = Anchors[i].value})
                  = IF HasFieldInWindow(Min(ResolvedLines(Anchors[i]))) THEN 1 ELSE 0
        /\ \A c \in 1..(Len(claims) - 1) :
              ClaimStart(claims[c]) <= ClaimStart(claims[c + 1])

\* The raw items of the request that are claim numbers, and the others
RawAnchors == {i \in 1..Len(raw_fields) : raw_fields[i].label = LblClaimNo}

RawOthers == {i \in 1..Len(raw_fields) : raw_fields[i].label # LblClaimNo}

\* The only line of a raw item with a single integer line marker
OnlyLine(i) == raw_fields[i].lines[1].n

\* The raw claim number whose line is the greatest at or before line l
AnchorBefore(l) ==
    CHOOSE a \in RawAnchors :
        /\ OnlyLine(a) <= l
        /\ \A b \in RawAnchors : OnlyLine(b) <= l => OnlyLine(b) <= OnlyLine(a)

\* The claims that hold the value of raw item i under its canonical key
ClaimsHolding(i) ==
    LET key == normalize_field_label(raw_fields[i].label)[1][1]
    IN  {c \in 1..Len(claims) :
            key \in DOMAIN claims[c].vals /\ claims[c].vals[key] = raw_fields[i].value}

\* C4: in the scenario the claims are exactly C-100 with Jane Doe and C-200
\* with John Roe, and every non-anchor field on line L is in the claim of
\* the anchor with the greatest line <= L and in no other claim.
C4_EndToEnd ==
    Grouped =>
        /\ Len(claims) = 2
        /\ {<<claims[c].vals["claimNumber"], claims[c].vals["claimant"]>> : c \in 1..2}
              = {<<ValC100, ValJaneDoe>>, <<ValC200, ValJohnRoe>>}
        /\ \A i \in RawOthers :
              IF \E a \in RawAnchors : OnlyLine(a) <= OnlyLine(i)
              THEN /\ Cardinality(ClaimsHolding(i)) = 1
                   /\ \A c \in ClaimsHolding(i) :
                         claims[c].vals["claimNumber"]
                             = raw_fields[AnchorBefore(OnlyLine(i))].value
              ELSE ClaimsHolding(i) = {}

\* A further field on line 60 is in the claim of C-200.
C4_Witness ==
    /\ Grouped
    /\ \E i \in RawOthers :
          /\ raw_fields[i].lines = <<IntMarker(60)>>
          /\ \E c \in ClaimsHolding(i) : claims[c].vals["claimNumber"] = ValC200

\* Every field occurrence of the request, as <<entry, place>>
AllOccurrences ==
    UNION {{<<e, f>> : f \in 1..Len(normalized[e].list)} : e \in 1..Len(normalized)}

Occ(o) == normalized[o[1]].list[o[2]]

\* The occurrences that carry the text v
OccurrencesOf(v) == {o \in AllOccurrences : Strip(Occ(o).value) = v}

TextsOf == {Strip(Occ(o).value) : o \in AllOccurrences}

\* The places the text v is found at on a line whose page the metadata
\* resolves: one per occurrence and listed line.
PagedPlaces(v) ==
    UNION {{<<o, j>> : j \in {j \in 1..Len(Occ(o).lines) :
                /\ ~IsNone(convert_line_number(Occ(o).lines[j]))
                /\ ~IsNone(PageOf(standardized_metadata,
                                  convert_line_number(Occ(o).lines[j])[1]))}} :
           o \in OccurrencesOf(v)}

PagedLines(v) ==
    {convert_line_number(Occ(t[1]).lines[t[2]])[1] : t \in PagedPlaces(v)}

PagesOfText(v) == {PageOf(standardized_metadata, l)[1] : l \in PagedLines(v)}

\* At least 3 occurrences across at least 3 distinct pages
Repeated(v) == Cardinality(PagedPlaces(v)) >= 3 /\ Cardinality(PagesOfText(v)) >= 3

\* C5 (as written): all the line numbers of every text with at least 3
\* occurrences on at least 3 distinct pages are ignored, and nothing is
\* ignored when no text is on more than 2 pages.
C5_NoiseAsWritten ==
    Grouped =>
        /\ \A v \in TextsOf :
              Repeated(v) =>
                  \A o \in OccurrencesOf(v) : ResolvedLines(Occ(o)) \subseteq Range(ignored_lines)
        /\ (\A v \in TextsOf : Cardinality(PagesOfText(v)) <= 2) => ignored_lines = <<>>

\* C5 (amended): the ignored lines are exactly the page-resolved lines of
\* the texts of at least 3 characters that have at least 3 page-resolved
\* occurrences on at least 3 distinct pages, in ascending order.
C5_NoiseDetection ==
    Grouped =>
        ignored_lines =
            SortedSeq(UNION {PagedLines(v) : v \in {v \in TextsOf : Len(v) >= 3 /\ Repeated(v)}})

\* A text of at least 3 characters is found on three pages and its lines
\* are the ignored lines.
C5_Witness ==
    /\ Grouped
    /\ \E v \in TextsOf :
          /\ Len(v) >= 3 /\ Repeated(v)
          /\ Range(ignored_lines) = PagedLines(v)

\* C9: no line reference of a non-anchor key of a returned claim is an
\* ignored line, with anchors and in the synthetic claim alike.
C9_NoiseExcluded ==
    Grouped =>
        \A c \in 1..Len(claims) :
            \A k \in DOMAIN claims[c].line_refs \ {"claimNumber"} :
                Range(claims[c].line_refs[k]) \cap Range(ignored_lines) = {}

\* The anchors with a resolved line, by their place among the claim numbers
ResolvedAnchors == {i \in 1..Len(Anchors) : ResolvedLines(Anchors[i]) # {}}

AnchorStart(i) == Min(ResolvedLines(Anchors[i]))

AnchorPage(i) == PageOf(standardized_metadata, AnchorStart(i))

\* The pages the metadata resolves for the lines of an occurrence
PagesOfField(field) ==
    {PageOf(standardized_metadata, l)[1] :
        l \in {l \in ResolvedLines(field) : ~IsNone(PageOf(standardized_metadata, l))}}

\* The anchor page and at least one page of the field are resolvable.
PagesComparable(i, field) == ~IsNone(AnchorPage(i)) /\ PagesOfField(field) # {}

\* How far the nearer of the field's lowest and highest page is from page
NearerPageGap(field, page) ==
    Min({Abs(Min(PagesOfField(field)) - page), Abs(Max(PagesOfField(field)) - page)})

\* A candidate: an occurrence with resolved lines, none of them ignored
Candidate(field) ==
    ResolvedLines(field) # {} /\ ResolvedLines(field) \cap Range(ignored_lines) = {}

\* The returned claims of anchor i (claim numbers carry distinct values)
ClaimsOfAnchor(i) ==
    {c \in 1..Len(claims) : claims[c].vals["claimNumber"] = Anchors[i].value}

\* The value of the occurrence is the value of key in the claim of anchor i.
Placed(i, key, field) ==
    \E c \in ClaimsOfAnchor(i) :
        key \in DOMAIN claims[c].vals /\ claims[c].vals[key] = field.value

\* A warning of the given kind names the occurrence under anchor i.
Diagnosed(i, key, field, kind) ==
    \E w \in 1..Len(claim_warnings) :
        /\ claim_warnings[w].claimNumber = Anchors[i].value
        /\ claim_warnings[w].field = key
        /\ claim_warnings[w].field_value = field.value
        /\ claim_warnings[w].reason.kind = kind

AllInWindow(i, field) ==
    \A l \in ResolvedLines(field) : InWindowOf(AnchorStart(i), l)

\* C6 (as written): with both pages resolvable a field is in the claim only
\* if every resolvable page of it is within 1 of the anchor page, and a
\* field with a page further away is rejected with a page_too_far warning.
C6_EveryPageNear ==
    Grouped =>
        \A i \in ResolvedAnchors, o \in AllOccurrences :
            (/\ o[1] \in OtherEntries
             /\ Candidate(Occ(o))
             /\ PagesComparable(i, Occ(o)))
            => IF \A pg \in PagesOfField(Occ(o)) : Abs(pg - AnchorPage(i)[1]) <= 1
               THEN TRUE
               ELSE /\ ~Placed(i, normalized[o[1]].key, Occ(o))
                    /\ Diagnosed(i, normalized[o[1]].key, Occ(o), "page_too_far")

\* C6 (amended): with both pages resolvable a field is in the claim only if
\* the nearer of its lowest and highest page is within 1 of the anchor
\* page; otherwise it is rejected with a page_too_far warning, in or out of
\* the line window.
C6_PageAware ==
    Grouped =>
        \A i \in ResolvedAnchors, o \in AllOccurrences :
            (/\ o[1] \in OtherEntries
             /\ Candidate(Occ(o))
             /\ PagesComparable(i, Occ(o))
             /\ NearerPageGap(Occ(o), AnchorPage(i)[1]) > 1)
            => /\ ~Placed(i, normalized[o[1]].key, Occ(o))
               /\ Diagnosed(i, normalized[o[1]].key, Occ(o), "page_too_far")

\* A field inside the line window of an anchor two pages away is rejected.
C6_Witness ==
    /\ Grouped
    /\ \E i \in ResolvedAnchors, o \in AllOccurrences :
          /\ o[1] \in OtherEntries
          /\ Candidate(Occ(o))
          /\ PagesComparable(i, Occ(o))
          /\ NearerPageGap(Occ(o), AnchorPage(i)[1]) > 1
          /\ AllInWindow(i, Occ(o))
          /\ Diagnosed(i, normalized[o[1]].key, Occ(o), "page_too_far")

\* The occurrence passes the window and page checks of anchor i.
Passes(i, field) ==
    /\ Candidate(field)
    /\ AllInWindow(i, field)
    /\ PagesComparable(i, field) => NearerPageGap(field, AnchorPage(i)[1]) <= 1

PassingPlaces(i, e) ==
    {f \in 1..Len(normalized[e].list) : Passes(i, normalized[e].list[f])}

LineGap(i, field) == Abs(Min(ResolvedLines(field)) - AnchorStart(i))

\* The passing occurrence closest to the anchor, the earliest among ties
Chosen(i, e) ==
    CHOOSE f \in PassingPlaces(i, e) :
        \A g \in PassingPlaces(i, e) :
            \/ LineGap(i, normalized[e].list[f]) < LineGap(i, normalized[e].list[g])
            \/ /\ LineGap(i, normalized[e].list[f]) = LineGap(i, normalized[e].list[g])
               /\ f <= g

\* C7: when two or more occurrences of a key pass the checks of a claim, the
\* claim holds the value of the closest one (the earliest among ties) and as
\* line references exactly its sorted, de-duplicated lines.
C7_ClosestOccurrence ==
    Grouped =>
        \A i \in ResolvedAnchors, e \in OtherEntries :
            Cardinality(PassingPlaces(i, e)) >= 2
            => /\ ClaimsOfAnchor(i) # {}
               /\ \A c \in ClaimsOfAnchor(i) :
                     /\ normalized[e].key \in DOMAIN claims[c].vals
                     /\ claims[c].vals[normalized[e].key]
                            = normalized[e].list[Chosen(i, e)].value
                     /\ claims[c].line_refs[normalized[e].key]
                            = SortedSeq(ResolvedLines(normalized[e].list[Chosen(i, e)]))

\* Two occurrences pass, the later one in the input is the closer, and its
\* lines are not all the lines of the passing occurrences.
C7_Witness ==
    /\ Grouped
    /\ \E i \in ResolvedAnchors, e \in OtherEntries :
          /\ Cardinality(PassingPlaces(i, e)) >= 2
          /\ \E f \in PassingPlaces(i, e) : f < Chosen(i, e)
          /\ UNION {ResolvedLines(normalized[e].list[f]) : f \in PassingPlaces(i, e)}
                 # ResolvedLines(normalized[e].list[Chosen(i, e)])
          /\ \E c \in ClaimsOfAnchor(i) :
                claims[c].vals[normalized[e].key] = normalized[e].list[Chosen(i, e)].value

\* C10: a candidate field that straddles a window boundary or lies outside
\* every window is in no claim, is named by a warning, and is in groups.
C10_AmbiguousDiagnosed ==
    Grouped =>
        \A o \in AllOccurrences :
            (/\ o[1] \in OtherEntries
             /\ ResolvedAnchors # {}
             /\ Candidate(Occ(o))
             /\ \A i \in ResolvedAnchors : ~AllInWindow(i, Occ(o)))
            => /\ \A i \in ResolvedAnchors : ~Placed(i, normalized[o[1]].key, Occ(o))
               /\ \E w \in 1..Len(claim_warnings) :
                     /\ claim_warnings[w].field = normalized[o[1]].key
                     /\ claim_warnings[w].field_value = Occ(o).value
               /\ FIELD_GROUPS(normalized[o[1]].key) \in DOMAIN groups
               /\ normalized[o[1]].key \in DOMAIN groups[FIELD_GROUPS(normalized[o[1]].key)]

\* The first line of an occurrence: its first listed line, resolved; an
\* occurrence without one comes after every line.
FirstListedLine(field) ==
    IF field.lines # <<>> /\ ~IsNone(convert_line_number(field.lines[1]))
    THEN convert_line_number(field.lines[1])[1]
    ELSE Sentinel

\* The places of the occurrences of an entry that carry a non-empty value
ValuedPlaces(e) == {f \in 1..Len(normalized[e].list) : normalized[e].list[f].value # <<>>}

\* The valued places in ascending first-line order, input order among equals
ByFirstLine(e) ==
    CHOOSE s \in [1..Cardinality(ValuedPlaces(e)) -> ValuedPlaces(e)] :
        \A p \in 1..(Len(s) - 1) :
            \/ FirstListedLine(normalized[e].list[s[p]])
                   < FirstListedLine(normalized[e].list[s[p + 1]])
            \/ /\ FirstListedLine(normalized[e].list[s[p]])
                      = FirstListedLine(normalized[e].list[s[p + 1]])
               /\ s[p] < s[p + 1]

\* The values of an entry joined by single spaces in first-line order
JoinedValue(e) ==
    JoinSpace([p \in 1..Cardinality(ValuedPlaces(e)) |->
                  normalized[e].list[ByFirstLine(e)[p]].value])

\* All the resolved lines of the occurrences of an entry
LinesOfEntry(e) ==
    UNION {ResolvedLines(normalized[e].list[f]) : f \in 1..Len(normalized[e].list)}

\* The entries of the claim-level keys that have a non-empty value
ValuedEntries == {e \in OtherEntries : ValuedPlaces(e) # {}}

-----------------------------------------------------------------------------
(* Properties of label normalization, stated over the raw items and the    *)
(* normalization result right after the first normalization.               *)

JustNormalized == pc = "normalized"

\* Where raw item i is found in the normalized dictionary
OutcomesOfItem(i) ==
    {[key |-> normalized[e].key,
      confidence |-> normalized[e].list[f].confidence,
      match_type |-> normalized[e].list[f].match_type] :
        <<e, f>> \in {ef \in UNION {{<<e, f>> : f \in 1..Len(normalized[e].list)} :
                                      e \in 1..Len(normalized)} :
                        /\ normalized[ef[1]].list[ef[2]].value = raw_fields[i].value
                        /\ normalized[ef[1]].list[ef[2]].raw_label = raw_fields[i].label}}

\* C11: the text of every canonical key of the synonym table normalizes to
\* that key through the exact-match path (confidence 1.0, class exact).
C11_CanonicalIdempotent ==
    JustNormalized =>
        \A i \in 1..Len(raw_fields) : \A k \in CanonicalKeys :
            raw_fields[i].label = KeyText(k) =>
                OutcomesOfItem(i) =
                    {[key |-> k, confidence |-> 10, match_type |-> "exact"]}

Synonyms == {FIELD_SYNONYMS[i].synonym : i \in SynIdx}

\* The keys the table gives for the synonyms of S
KeysOfSynonyms(S) ==
    {FIELD_SYNONYMS[i].canonical : i \in {i \in SynIdx : FIELD_SYNONYMS[i].synonym \in S}}

\* The synonyms equal to the cleaned label c
EqualSynonyms(c) == {s \in Synonyms : s = c}

\* The synonyms that are a prefix of c, or of which c (3 characters or
\* more) is a prefix
PrefixSynonyms(c) ==
    {s \in Synonyms : StartsWith(c, s) \/ (Len(c) >= 3 /\ StartsWith(s, c))}

\* The synonyms of 4 characters or more inside c of 5 characters or more
InnerSynonyms(c) ==
    {s \in Synonyms : Len(c) >= 5 /\ Len(s) >= 4 /\ Contains(c, s)}

IsUnmapped(i) == \E u \in 1..Len(unmapped_fields) : unmapped_fields[u] = raw_fields[i]

\* Item i is mapped, to a key of a synonym of S, with this confidence (in
\* tenths) and class.
MappedThrough(i, S, confidence, match_type) ==
    /\ ~IsUnmapped(i)
    /\ OutcomesOfItem(i) # {}
    /\ \A o \in OutcomesOfItem(i) :
          /\ o.key \in KeysOfSynonyms(S)
          /\ o.confidence = confidence
          /\ o.match_type = match_type

\* C12: first match wins on the cleaned label: exact (1.0), else partial
\* (0.8), else contains (0.6), else unmapped; the key is one the table
\* gives for a synonym in that relation to the label.
C12_MatchOrder ==
    JustNormalized =>
        \A i \in 1..Len(raw_fields) :
            LET c == CleanLabel(raw_fields[i].label)
            IN  IF EqualSynonyms(c) # {}
                THEN MappedThrough(i, EqualSynonyms(c), 10, "exact")
                ELSE IF PrefixSynonyms(c) # {}
                THEN MappedThrough(i, PrefixSynonyms(c), 8, "partial")
                ELSE IF InnerSynonyms(c) # {}
                THEN MappedThrough(i, InnerSynonyms(c), 6, "contains")
                ELSE IsUnmapped(i) /\ OutcomesOfItem(i) = {}

\* A label that is no synonym, that a synonym starts and that holds a
\* synonym inside, has been returned as partial.
C12_Witness ==
    /\ JustNormalized
    /\ \E i \in 1..Len(raw_fields) :
          /\ EqualSynonyms(CleanLabel(raw_fields[i].label)) = {}
          /\ PrefixSynonyms(CleanLabel(raw_fields[i].label)) # {}
          /\ InnerSynonyms(CleanLabel(raw_fields[i].label)) # {}
          /\ \E o \in OutcomesOfItem(i) : o.match_type = "partial"


-----------------------------------------------------------------------------
(* Properties of label collision detection, stated over the raw items and  *)
(* the normalization result right after the first normalization.           *)

\* The raw items that carry this raw label and are found under this key
LabelOccurrences(key, label) ==
    {i \in 1..Len(raw_fields) :
        /\ raw_fields[i].label = label
        /\ \E o \in OutcomesOfItem(i) : o.key = key}

\* The resolved line numbers of these raw items
LabelLines(items) ==
    UNION {ResolvedLines(raw_fields[i]) : i \in items}

\* The lines of S with no line of S in the CollisionGap lines below them
ClusterStarts(S) == {l \in S : \A o \in S : o < l => l - o > CollisionGap}

\* The cluster that opens at start: the lines from start up to the next
\* cluster start
ClusterAt(S, start) ==
    {l \in S : l >= start /\ \A t \in ClusterStarts(S) : t > start => l < t}

\* The maximal clusters of S as [min, max], ascending
ClusterRanges(S) ==
    LET starts == SortedSeq(ClusterStarts(S))
    IN  [p \in 1..Len(starts) |-> <<starts[p], Max(ClusterAt(S, starts[p]))>>]

\* The collision records of this key and raw label, by position
RecordsOf(key, label) ==
    {c \in 1..Len(label_collisions) :
        /\ label_collisions[c].mapped_to = key
        /\ label_collisions[c].label = label}

\* Every raw item is found once in the normalized dictionary, with the
\* lines it came with.
OccurrencesKept ==
    \A i \in 1..Len(raw_fields) :
        /\ OutcomesOfItem(i) # {}
        /\ \E e \in 1..Len(normalized) :
              Cardinality({f \in 1..Len(normalized[e].list) :
                  /\ normalized[e].list[f].value = raw_fields[i].value
                  /\ normalized[e].list[f].raw_label = raw_fields[i].label
                  /\ normalized[e].list[f].lines = raw_fields[i].lines}) = 1

\* C13: for every key and raw label there is exactly one collision record
\* when the resolved lines of the label's occurrences form two or more
\* clusters more than CollisionGap apart, and none otherwise; the record's
\* regions are the maximal clusters, ascending; no occurrence is merged,
\* altered or removed.
C13_CollisionDetection ==
    JustNormalized =>
        /\ OccurrencesKept
        /\ \A e \in 1..Len(normalized) :
              \A label \in {raw_fields[i].label : i \in 1..Len(raw_fields)} :
                  LET S == LabelLines(LabelOccurrences(normalized[e].key, label))
                      recs == RecordsOf(normalized[e].key, label)
                  IN  IF Cardinality(ClusterStarts(S)) >= 2
                      THEN /\ Cardinality(recs) = 1
                           /\ \A c \in recs :
                                 label_collisions[c].line_ranges = ClusterRanges(S)
                      ELSE recs = {}


-----------------------------------------------------------------------------
(* Properties of metadata standardization, stated over the raw line        *)
(* metadata and the standardized list right after standardization.         *)

JustStandardized == pc = "standardized"

IsList(meta, len) == meta.kind = "list" /\ Len(meta.v) = len

\* C14: every [page, x, y, width, height] entry with positive width and
\* height is standardized, at its index, to the record of these five values.
C14_FiveElementRoundTrip ==
    JustStandardized =>
        /\ Len(standardized_metadata) = Len(line_metadata)
        /\ \A i \in 1..Len(line_metadata) :
              (/\ IsList(line_metadata[i], 5)
               /\ line_metadata[i].v[4] > 0
               /\ line_metadata[i].v[5] > 0)
                  => standardized_metadata[i] =
                        <<[page |-> line_metadata[i].v[1],
                           x |-> line_metadata[i].v[2],
                           y |-> line_metadata[i].v[3],
                           width |-> line_metadata[i].v[4],
                           height |-> line_metadata[i].v[5]]>>

\* A valid five-element entry with a zero x, and one with a non-zero x and
\* another y, have been standardized.
C14_Witness ==
    /\ JustStandardized
    /\ \E i, j \in 1..Len(line_metadata) :
          /\ IsList(line_metadata[i], 5) /\ IsList(line_metadata[j], 5)
          /\ line_metadata[i].v[2] = 0
          /\ line_metadata[j].v[2] # 0 /\ line_metadata[j].v[2] # line_metadata[j].v[3]
          /\ ~IsNone(standardized_metadata[i]) /\ ~IsNone(standardized_metadata[j])

\* C15: every legacy [page, baseline_y, height, page_height] entry with
\* positive height and page_height is standardized to y = max(0,
\* baseline_y - height), width = page_height and height = height; y is
\* never negative.
C15_LegacyShape ==
    JustStandardized =>
        \A i \in 1..Len(line_metadata) :
            (/\ IsList(line_metadata[i], 4)
             /\ line_metadata[i].v[3] > 0
             /\ line_metadata[i].v[4] > 0)
                => /\ ~IsNone(standardized_metadata[i])
                   /\ standardized_metadata[i][1].y >= 0
                   /\ standardized_metadata[i][1].y =
                         (IF line_metadata[i].v[2] > line_metadata[i].v[3]
                          THEN line_metadata[i].v[2] - line_metadata[i].v[3] ELSE 0)
                   /\ standardized_metadata[i][1].width = line_metadata[i].v[4]
                   /\ standardized_metadata[i][1].height = line_metadata[i].v[3]

\* A legacy entry whose baseline is below its height, and one whose
\* baseline is above it, have been standardized.
C15_Witness ==
    /\ JustStandardized
    /\ \E i, j \in 1..Len(line_metadata) :
          /\ IsList(line_metadata[i], 4) /\ IsList(line_metadata[j], 4)
          /\ line_metadata[i].v[2] < line_metadata[i].v[3]
          /\ line_metadata[j].v[2] > line_metadata[j].v[3]
          /\ ~IsNone(standardized_metadata[i]) /\ ~IsNone(standardized_metadata[j])

\* The value a dictionary entry carries for a field: the one under the
\* primary key, else the one under the alias
DictField(d, key, alias) == IF ~IsNone(d[key]) THEN d[key] ELSE d[alias]

\* The five fields of an entry as Optional scalars, in the order page, x,
\* y, width, height; <<>> when the entry has none of the three shapes
FieldsOfEntry(meta) ==
    IF meta.kind = "dict"
    THEN <<DictField(meta.d, "page", "p"), DictField(meta.d, "x", "left"),
           DictField(meta.d, "y", "top"), DictField(meta.d, "width", "w"),
           DictField(meta.d, "height", "h")>>
    ELSE IF meta.kind = "list" /\ Len(meta.v) >= 5
    THEN [k \in 1..5 |-> <<NumVal(meta.v[k])>>]
    ELSE IF meta.kind = "list" /\ Len(meta.v) = 4
    THEN <<<<NumVal(meta.v[1])>>, <<NumVal(0)>>,
           <<NumVal(IF meta.v[2] > meta.v[3] THEN meta.v[2] - meta.v[3] ELSE 0)>>,
           <<NumVal(meta.v[4])>>, <<NumVal(meta.v[3])>>>>
    ELSE <<>>

\* The entry lacks a required field, has a non-numeric one, or has a
\* width or height that is not positive.
Deficient(fields) ==
    \/ fields = <<>>
    \/ \E k \in 1..5 : IsNone(fields[k])
    \/ \E k \in 1..5 : ~fields[k][1].num
    \/ fields[4][1].n <= 0
    \/ fields[5][1].n <= 0

\* C16: the standardized list is index-aligned with the input; an entry is
\* absent exactly when the input lacks a required field, has a non-numeric
\* one, or has width <= 0 or height <= 0; otherwise, in each of the three
\* shapes and for zero values too, it carries the input's values.
C16_AbsenceRule ==
    JustStandardized =>
        /\ Len(standardized_metadata) = Len(line_metadata)
        /\ \A i \in 1..Len(line_metadata) :
              LET fields == FieldsOfEntry(line_metadata[i])
              IN  IF Deficient(fields)
                  THEN IsNone(standardized_metadata[i])
                  ELSE standardized_metadata[i] =
                          <<[page |-> fields[1][1].n, x |-> fields[2][1].n,
                             y |-> fields[3][1].n, width |-> fields[4][1].n,
                             height |-> fields[5][1].n]>>


-----------------------------------------------------------------------------
(* Properties of line-number conversion, stated over the raw markers of    *)
(* the request once grouping has converted them.                           *)

\* The digits of a string marker without blanks, sign and 0x prefix
MarkerDigits(s) ==
    LET u == IF s # <<>> /\ Head(s) \in {"-", "+"} THEN Tail(s) ELSE s
    IN  IF Len(u) >= 2 /\ u[1] = "0" /\ u[2] \in {"x", "X"}
        THEN SubSeq(u, 3, Len(u)) ELSE u

\* The base a string marker is written in: 16 with a 0x prefix or a hex
\* letter, else 10
MarkerBase(s) ==
    IF Contains(s, <<"0", "x">>) \/ Contains(s, <<"0", "X">>)
          \/ \E i \in 1..Len(s) : ToUpper(s[i]) \in HexLetters
    THEN 16 ELSE 10

RECURSIVE ValueOfDigits(_, _)
ValueOfDigits(digits, base) ==
    IF digits = <<>> THEN 0
    ELSE ValueOfDigits(SubSeq(digits, 1, Len(digits) - 1), base) * base
            + DigitVal(digits[Len(digits)])

\* The integer a raw marker denotes, as Optional: none for a non-integral
\* float and for a string that is no signed hex or decimal number
Denoted(m) ==
    IF m.kind = "int" THEN <<m.n>>
    ELSE IF m.kind = "float" THEN (IF m.frac = 0 THEN <<m.n>> ELSE <<>>)
    ELSE LET s == Strip(m.s)
             digits == MarkerDigits(s)
             base == MarkerBase(s)
         IN  IF digits = <<>> \/ \E i \in 1..Len(digits) : ~IsDigit(digits[i], base)
             THEN <<>>
             ELSE IF Head(s) = "-" THEN <<0 - ValueOfDigits(digits, base)>>
             ELSE <<ValueOfDigits(digits, base)>>

\* C17: the conversion of every raw marker is absent or a non-negative
\* integer equal to the value the marker denotes; it is absent for negative
\* values, non-integral floats and unparsable strings; "0x1A" and 26 both
\* give 26.
C17_LineNumberConversion ==
    Grouped =>
        \A i \in 1..Len(raw_fields) : \A j \in 1..Len(raw_fields[i].lines) :
            LET converted == convert_line_number(raw_fields[i].lines[j])
                denoted == Denoted(raw_fields[i].lines[j])
            IN  /\ converted # <<>> => converted[1] >= 0
                /\ IF denoted = <<>> \/ denoted[1] < 0
                   THEN converted = <<>>
                   ELSE converted = denoted


-----------------------------------------------------------------------------
(* Properties of the highlight view and of the field references, stated    *)
(* over the normalized occurrences, the standardized metadata and the      *)
(* lists the builders return.                                              *)

Highlighted == pc = "highlighted"

\* The raw markers of the occurrences of entry e, in order
MarkersOfEntry(e) ==
    Flatten([f \in 1..Len(normalized[e].list) |-> normalized[e].list[f].lines])

\* The marker resolves to a line number
Resolves(m) == Denoted(m) # <<>> /\ Denoted(m)[1] >= 0

\* The marker resolves to a line that has standardized metadata
HasRectangle(m) ==
    /\ Resolves(m)
    /\ Denoted(m)[1] < Len(standardized_metadata)
    /\ standardized_metadata[Denoted(m)[1] + 1] # <<>>

\* The rectangle stored at the marker's line
RectangleOf(m) == standardized_metadata[Denoted(m)[1] + 1][1]

\* The rectangle list returned for a key; empty when it has no entry
RectsOfKey(key) ==
    Flatten([h \in 1..Len(highlight_data) |->
        IF highlight_data[h].key = key THEN highlight_data[h].rects ELSE <<>>])

\* The rectangles of the markers of entry e, each at its first occurrence
FirstRectangles(e) ==
    LET markers == MarkersOfEntry(e)
    IN  Flatten([j \in 1..Len(markers) |->
            IF /\ HasRectangle(markers[j])
               /\ \A i \in 1..(j - 1) :
                     HasRectangle(markers[i]) =>
                         RectangleOf(markers[i]) # RectangleOf(markers[j])
            THEN <<RectangleOf(markers[j])>> ELSE <<>>])

\* C18: the rectangle list of every key has no two equal rectangles, and
\* holds the rectangles of the key's lines in the order of their first
\* occurrence.
C18_RectanglesDeduplicated ==
    Highlighted =>
        \A e \in 1..Len(normalized) :
            LET rects == RectsOfKey(normalized[e].key)
            IN  /\ \A i, j \in 1..Len(rects) : i # j => rects[i] # rects[j]
                /\ rects = FirstRectangles(e)

\* The positions of the markers of entry e of one of the three cases
MarkersWhere(e, Case(_)) ==
    {j \in 1..Len(MarkersOfEntry(e)) : Case(MarkersOfEntry(e)[j])}

Unresolved(m) == ~Resolves(m)

WithoutRectangle(m) == Resolves(m) /\ ~HasRectangle(m)

\* C19: once the highlight builder has run, nothing was raised, and every
\* raw marker of every occurrence has exactly one outcome: its rectangle,
\* the one stored at its resolved line, in the key's list; or an
\* invalid_refs entry when it does not resolve; or a missing_metadata entry
\* when its line is out of range or has no metadata.  No rectangle comes
\* from another line.
C19_NoReferenceDropped ==
    /\ pc # "raised"
    /\ Highlighted =>
          /\ \A e \in 1..Len(normalized) :
                LET key == normalized[e].key
                    markers == MarkersOfEntry(e)
                IN  /\ \A j \in MarkersWhere(e, HasRectangle) :
                          \E r \in 1..Len(RectsOfKey(key)) :
                              RectsOfKey(key)[r] = RectangleOf(markers[j])
                    /\ \A r \in 1..Len(RectsOfKey(key)) :
                          \E j \in MarkersWhere(e, HasRectangle) :
                              RectsOfKey(key)[r] = RectangleOf(markers[j])
                    /\ \A j \in MarkersWhere(e, Unresolved) :
                          \E v \in 1..Len(invalid_refs) :
                              /\ invalid_refs[v].field = key
                              /\ invalid_refs[v].line = markers[j]
                    /\ \A j \in MarkersWhere(e, WithoutRectangle) :
                          \E v \in 1..Len(missing_metadata) :
                              /\ missing_metadata[v].field = key
                              /\ missing_metadata[v].line = Denoted(markers[j])[1]
          /\ Len(invalid_refs) =
                Len(Flatten([e \in 1..Len(normalized) |->
                    SortedSeq(MarkersWhere(e, Unresolved))]))
          /\ Len(missing_metadata) =
                Len(Flatten([e \in 1..Len(normalized) |->
                    SortedSeq(MarkersWhere(e, WithoutRectangle))]))

Referenced == pc = "referenced"

\* The resolved line numbers of all occurrences of entry e
ResolvedOfEntry(e) ==
    {Denoted(MarkersOfEntry(e)[j])[1] : j \in MarkersWhere(e, Resolves)}

\* The positions of the field_refs entries of a key
RefsOfKey(key) == {r \in 1..Len(field_refs) : field_refs[r].key = key}

\* C20: field_refs holds, for every canonical key with a resolvable line,
\* one entry: the ascending, duplicate-free union of the resolved line
\* numbers of all its occurrences; a key without one has no entry.
C20_FieldRefs ==
    Referenced =>
        /\ \A r \in 1..Len(field_refs) :
              \E e \in 1..Len(normalized) : normalized[e].key = field_refs[r].key
        /\ \A e \in 1..Len(normalized) :
              IF ResolvedOfEntry(e) = {}
              THEN RefsOfKey(normalized[e].key) = {}
              ELSE /\ Cardinality(RefsOfKey(normalized[e].key)) = 1
                   /\ \A r \in RefsOfKey(normalized[e].key) :
                         /\ Range(field_refs[r].lines) = ResolvedOfEntry(e)
                         /\ \A i, j \in 1..Len(field_refs[r].lines) :
                               i < j => field_refs[r].lines[i] < field_refs[r].lines[j]

-----------------------------------------------------------------------------
(* The path map.  Every item of SpecSourceRefs has a value of its own, so  *)
(* the value a claim holds under a key names the occurrence accepted.      *)

Returned == pc = "returned"

\* The canonical key of raw item r, as Optional
KeyOfItem(r) == normalize_field_label(raw_fields[r].label)[1]

\* The line numbers raw item r resolves to
ItemLines(r) ==
    {Denoted(raw_fields[r].lines[j])[1] :
        j \in {j \in 1..Len(raw_fields[r].lines) : Resolves(raw_fields[r].lines[j])}}

\* The occurrences behind key k of claim i: the one whose value the claim
\* holds, or every occurrence of the key in the single claim of a request
\* without claim numbers
AcceptedItems(i, k) ==
    {r \in 1..Len(raw_fields) :
        /\ KeyOfItem(r) = <<k>>
        /\ \/ "claimNumber" \notin DOMAIN claims[i].vals
           \/ raw_fields[r].value = claims[i].vals[k]}

AcceptedLines(i, k) == UNION {ItemLines(r) : r \in AcceptedItems(i, k)}

\* The lines _source_refs holds under a path, none when it has no entry
LinesAt(path) == IF path \in DOMAIN source_refs THEN source_refs[path] ELSE <<>>

\* C21: in the returned response, for every claim i and every key k of the
\* claim (claimNumber included), "claims[i].k" and "data.claims[i].k" of
\* _source_refs hold exactly the line numbers of the occurrence accepted
\* into claim i for k, ascending: never the global list of the key, never
\* another claim's lines.
C21_ClaimSourceRefs ==
    Returned =>
        \A i \in 1..Len(claims) : \A k \in DOMAIN claims[i].vals :
            \A root \in {"data", ""} :
                LinesAt([root |-> root, section |-> "claims",
                         index |-> <<i - 1>>, key |-> k])
                    = SortedSeq(AcceptedLines(i, k))

-----------------------------------------------------------------------------
(* Strict mode.                                                            *)

\* The keys strict mode is to drop: confidence below 0.4, or named by a
\* label collision
KeysToDrop ==
    {k \in DOMAIN field_confidence : field_confidence[k] < 4}
        \cup {label_collisions[c].mapped_to : c \in 1..Len(label_collisions)}

\* Key k contributes nothing to the response
Contributes(k) ==
    \/ \E r \in 1..Len(field_refs) : field_refs[r].key = k
    \/ \E h \in 1..Len(highlight_data) : highlight_data[h].key = k
    \/ \E g \in DOMAIN groups : k \in DOMAIN groups[g]
    \/ \E i \in 1..Len(claims) : k \in DOMAIN claims[i].vals
    \/ \E path \in DOMAIN source_refs : path.key = k

\* The canonical keys of the raw items that are not on an ignored line
KeysOfRequest ==
    {KeyOfItem(r)[1] : r \in {r \in 1..Len(raw_fields) :
        KeyOfItem(r) # <<>> /\ ~OnIgnoredLine(raw_fields[r], ignored_lines)}}

\* C22: in the returned response, with the strictness toggle on every key
\* with confidence below 0.4 or named by a label collision is recorded in
\* dropped_fields with a reason and contributes nothing: no entry in
\* field_refs or highlight_data, no value in groups or claims, no path in
\* _source_refs; with the toggle off dropped_fields is empty and no key of
\* the request is removed.
C22_StrictMode ==
    Returned =>
        IF strict
        THEN \A k \in KeysToDrop :
                /\ \E d \in 1..Len(dropped_fields) :
                      dropped_fields[d].field = k /\ dropped_fields[d].reason # ""
                /\ ~Contributes(k)
        ELSE /\ dropped_fields = <<>>
             /\ KeysOfRequest = {normalized[e].key : e \in 1..Len(normalized)}

-----------------------------------------------------------------------------
(* Properties of the ST rows saved by the editing route.                   *)

\* The edit has been served
Edited == requests = <<>> /\ response.status = 200

\* The items saved last and the rows saved last
StItems == files[StructuredSuffix].content

StRows == files[StSuffix].content

\* The columns of a row
StColumns == Range(ST_CANONICAL_FIELDS)

\* The anchors of the saved items, by first line
RowAnchors(items) == SortedBy(items, ClaimItems(items))

\* Item i is inside the window of row p
InRowWindow(items, anchors, i, p) ==
    /\ Truthy(items[i].line_numbers)
    /\ InWindow(items[i], first_line(items[anchors[p]]), StWindowEnd(items, anchors, p))

\* The items in the window of row p, its anchor apart, with their column
\* names
Named(items, anchors, p) ==
    {i \in 1..Len(items) : /\ i # anchors[p]
                           /\ InRowWindow(items, anchors, i, p)
                           /\ StrippedOrEmpty(items[i].canonical_name) # <<>>}

NameOf(item) == BaseKey(StrippedOrEmpty(item.canonical_name))

\* The items row p is offered for column b, in the order of the offers: its
\* anchor for the claim number, then the items in its window named b
Offered(items, anchors, p, b) ==
    (IF b = ClaimNumberKey THEN <<anchors[p]>> ELSE <<>>)
    \o SortedSeq({i \in Named(items, anchors, p) : NameOf(items[i]) = b})

\* Those of the offered items that have a value
WithValue(items, offered) ==
    Flatten(List([k \in 1..Len(offered) |->
        IF Truthy(items[offered[k]].value) THEN <<offered[k]>> ELSE <<>>]))

\* The columns of b: b and its numbered variants that are columns
ColumnsOf(b) ==
    <<b>> \o Flatten(List([m \in 1..5 |->
                 IF Numbered(b, m + 1) \in StColumns THEN <<Numbered(b, m + 1)>> ELSE <<>>]))

\* The row is also offered an item named by a numbered variant of b, or by
\* the name b is a numbered variant of
SharesColumns(offers, b) ==
    \E o \in StColumns \ {b} :
        /\ offers[o] # <<>>
        /\ o \in Range(ColumnsOf(b)) \/ b \in Range(ColumnsOf(o))

\* The columns of b in the row hold the given items in order, one each, and
\* no value after them
FilledInOrder(items, row, b, given, cols) ==
    \A k \in 1..Len(cols) :
        IF k <= Len(given) THEN row[cols[k]] = SlotOf(b, items[given[k]])
        ELSE ~Truthy(row[cols[k]].value)

\* The offers of row p by column
OffersOf(items, anchors, p) == [b \in StColumns |-> Offered(items, anchors, p, b)]

\* C23: in every saved row, the items with a value that the row is offered
\* for one column name fill the column and then its numbered variants in
\* the order of the offers, one item per column; the columns after them
\* hold no value, and an item beyond the last variant is in none of them
\* (for names whose columns no differently named item of the row shares).
C23_OverflowSlots ==
    Edited =>
        \A items \in {StItems} : \A anchors \in {RowAnchors(items)} :
            \A p \in 1..Len(StRows) : \A offers \in {OffersOf(items, anchors, p)} :
                \A b \in StColumns :
                    ~SharesColumns(offers, b) =>
                        FilledInOrder(items, StRows[p], b, WithValue(items, offers[b]),
                                      ColumnsOf(b))

\* A row that is offered three items with a value for total paid, one more
\* than its columns
C23_Witness ==
    /\ Edited
    /\ \E p \in 1..Len(StRows) :
           /\ ~SharesColumns(OffersOf(StItems, RowAnchors(StItems), p), TotalPaidKey)
           /\ Len(WithValue(StItems, Offered(StItems, RowAnchors(StItems), p, TotalPaidKey)))
                  > Len(ColumnsOf(TotalPaidKey))
           /\ Truthy(StRows[p][TotalPaidKey \o <<"2">>].value)

\* A run that fills the sixth column of expenses paid and goes beyond it
C23_WitnessRun ==
    /\ Edited
    /\ StRows # <<>>
    /\ Len(WithValue(StItems, Offered(StItems, RowAnchors(StItems), 1, ExpensesPaidKey))) > 6
    /\ Truthy(StRows[1][ExpensesPaidKey \o <<"6">>].value)

\* The record is the copy of the item: its key, value, lines and type, and
\* its canonical name, or the name of a column when the item has none
CopyOf(record, item) ==
    /\ record.source_key = item.source_key
    /\ record.value = item.value
    /\ record.line_numbers = item.line_numbers
    /\ record.semantic_type = item.semantic_type
    /\ IF Truthy(item.canonical_name) THEN record.canonical_name = item.canonical_name
       ELSE record.canonical_name.kind = "str" /\ record.canonical_name.s \in StColumns

\* C24: the saved rows are one per claim-number item, and every row has
\* exactly the columns of the canonical list, each holding the empty
\* placeholder or the copy of one saved item.
C24_FixedSchema ==
    Edited =>
        \A items \in {StItems} :
            /\ Len(StRows) = Cardinality({i \in 1..Len(items) : is_claim_number_item(items[i])})
            /\ \A p \in 1..Len(StRows) :
                   /\ DOMAIN StRows[p] = StColumns
                   /\ \A b \in StColumns :
                          \/ StRows[p][b] = empty_field(b)
                          \/ \E i \in 1..Len(items) : CopyOf(StRows[p][b], items[i])

\* Two rows, one with items in the column of total paid and in its variant
C24_Witness ==
    /\ Edited
    /\ Len(StRows) >= 2
    /\ \E p \in 1..Len(StRows) :
           /\ Truthy(StRows[p][TotalPaidKey].value)
           /\ Truthy(StRows[p][TotalPaidKey \o <<"2">>].value)

\* Item i of the saved items is in a column of the saved row p
InRow(i, p) == \E b \in StColumns : StRows[p][b].source_key = StItems[i].source_key

\* The rows that hold item i
RowsOf(i) == {p \in 1..Len(StRows) : InRow(i, p)}

\* C25: every item in a saved row, apart from the anchor of the row, has all
\* its lines in the window of the row, and no saved item is in the columns
\* of more than one row.
C25_RowWindows ==
    Edited =>
        \A i \in 1..Len(StItems) :
            /\ \A p \in RowsOf(i) :
                   i # RowAnchors(StItems)[p] =>
                       InRowWindow(StItems, RowAnchors(StItems), i, p)
            /\ Cardinality(RowsOf(i)) <= 1

\* The saved debug information
StDebug == files[DebugSuffix].content

\* Item i is in a column of a row whose anchor it is not
PlacedByScan(i) == \E p \in RowsOf(i) : i # RowAnchors(StItems)[p]

\* C26: items_unassigned lists exactly the saved items that are in no column
\* of any row, in their order, and items_assigned is the number of items
\* that are in a column of a row whose anchor they are not.
C26_DebugPayload ==
    Edited =>
        /\ [u \in 1..Len(StDebug.items_unassigned) |-> StDebug.items_unassigned[u].source_key]
               = Flatten(List([i \in 1..Len(StItems) |->
                     IF RowsOf(i) = {} THEN <<StItems[i].source_key>> ELSE <<>>]))
        /\ StDebug.items_assigned = Cardinality({i \in 1..Len(StItems) : PlacedByScan(i)})

-----------------------------------------------------------------------------
(* Properties of the structuring route.                                    *)

\* The structuring has been served and its items saved
Structured200 == requests = <<>> /\ response.status = 200

\* C27: no component raises on items with missing, null or mistyped parts:
\* the structuring of the request returns, and whenever the route has saved
\* the items of a structuring, build_st_rows has returned rows and debug
\* information for them, which the route has saved as well.
C27_NeverRaise ==
    /\ pc # "raised"
    /\ Structured200 => /\ StSuffix \in DOMAIN files
                        /\ DebugSuffix \in DOMAIN files

-----------------------------------------------------------------------------
(* Properties of the highlight endpoint.                                   *)

\* A highlight request has been served last
HighlightServed == ~IsNone(served) /\ served[1].op = "GET"

\* The stored entry of line n has at least four elements
HasEntry(n) ==
    /\ n \in 0..(Len(line_metadata) - 1)
    /\ line_metadata[n + 1].kind = "list"
    /\ Len(line_metadata[n + 1].v) >= 4

\* It is valid: height and page height are positive
ValidEntry(n) ==
    HasEntry(n) /\ line_metadata[n + 1].v[3] > 0 /\ line_metadata[n + 1].v[4] > 0

\* Line n can stand in for the line: valid and on the same page
StandsIn(n, line) == ValidEntry(n) /\ line_metadata[n + 1].v[1] = line_metadata[line + 1].v[1]

\* The rectangle of line n for the request
LineRectangle(n, request) ==
    get_line_coordinates(line_metadata[n + 1], request.target_width, request.target_height)

ZeroRectangle(page) == [page |-> page, x1 |-> 0, y1 |-> 0, x2 |-> 0, y2 |-> 0]

\* C28: a highlight request for a stored line with at least four elements
\* is answered with the rectangle of the line when the line is valid, else
\* with that of the line before when it is valid and on the same page, else
\* with that of the line after when it is, else with zeros on the page of
\* the line.
C28_SelfHealing ==
    (HighlightServed /\ HasEntry(served[1].line)) =>
        \A line \in {served[1].line} :
            response = Response(200,
                IF ValidEntry(line) THEN LineRectangle(line, served[1])
                ELSE IF StandsIn(line - 1, line) THEN LineRectangle(line - 1, served[1])
                ELSE IF StandsIn(line + 1, line) THEN LineRectangle(line + 1, served[1])
                ELSE ZeroRectangle(line_metadata[line + 1].v[1]))

\* A degenerate line between two valid lines of its page
C28_Witness ==
    /\ HighlightServed
    /\ HasEntry(served[1].line)
    /\ ~ValidEntry(served[1].line)
    /\ StandsIn(served[1].line - 1, served[1].line)
    /\ StandsIn(served[1].line + 1, served[1].line)
    /\ response.status = 200

\* A degenerate line whose neighbours are on another page or missing
C28_WitnessZeros ==
    /\ HighlightServed
    /\ HasEntry(served[1].line)
    /\ ValidEntry(served[1].line + 1)
    /\ response = Response(200, ZeroRectangle(line_metadata[served[1].line + 1].v[1]))

-----------------------------------------------------------------------------
(* Properties of report_info.                                              *)

\* The occurrences of key k in the normalized fields
Occurrences(k) == EntryOf(normalized, k).list

\* The places of the first occurrences of the distinct non-empty values
FirstOccurrences(values) ==
    SortedSeq({i \in 1..Len(values) :
                  values[i] # <<>> /\ \A j \in 1..(i - 1) : values[j] # values[i]})

\* The distinct non-empty values in the order of their first occurrences
Distinct(values) ==
    LET first == FirstOccurrences(values) IN [p \in 1..Len(first) |-> values[first[p]]]

\* report_info holds the one value, or the list of the values
HoldsSplit(held, values) ==
    IF Len(values) = 1 THEN held = [kind |-> "str", vals |-> values]
    ELSE held = [kind |-> "array", vals |-> values]

\* report_info holds the one value, the list of several values, or nothing
HoldsSplitOrNone(held, values) ==
    IF values = <<>> THEN held = [kind |-> "none", vals |-> <<>>]
    ELSE HoldsSplit(held, values)

\* No report-level key is a key of a claim
ReportKeysApart == \A c \in 1..Len(claims) : DOMAIN claims[c].vals \cap report_level_fields = {}

\* The line references under key k: one list per distinct value, the lines
\* of its first occurrence
LinesPerValue(k, values) ==
    report_info[k].line_refs =
        LET first == FirstOccurrences(values)
        IN [p \in 1..Len(first) |->
               SortedSeq(Range(ConvertedLines(Occurrences(k)[first[p]].lines)))]

ValuesOf(k) == [i \in 1..Len(Occurrences(k)) |-> Occurrences(k)[i].value]

StrippedValuesOf(k) == [i \in 1..Len(Occurrences(k)) |-> Strip(Occurrences(k)[i].value)]

\* C29: for every report-level key of the request, report_info holds the
\* single value when the occurrences have exactly one distinct non-empty
\* value, otherwise the list of the distinct values in the order of their
\* first occurrences; the line references are kept per distinct value, and
\* no report-level key is a key of a claim.
C29_ReportSplit ==
    Returned =>
        /\ \A k \in DOMAIN report_info :
               /\ HoldsSplit(report_info[k].value, Distinct(ValuesOf(k)))
               /\ Len(report_info[k].line_refs) = Len(Distinct(ValuesOf(k)))
        /\ ReportKeysApart

\* C29 (amended): for every report-level key of the request, with the values
\* compared and held without the white space around them, report_info holds
\* the single value when the occurrences have exactly one distinct non-empty
\* value, nothing when they have none, otherwise the list of the distinct
\* values in the order of their first occurrences; the line references are
\* kept per distinct value, and no report-level key is a key of a claim.
C29_ReportSplitStripped ==
    Returned =>
        /\ \A k \in DOMAIN report_info :
               /\ HoldsSplitOrNone(report_info[k].value, Distinct(StrippedValuesOf(k)))
               /\ LinesPerValue(k, StrippedValuesOf(k))
        /\ ReportKeysApart

\* Insured names of two distinct values next to a claim
C29_Witness ==
    /\ Returned
    /\ claims # <<>>
    /\ "insured" \in DOMAIN report_info
    /\ report_info["insured"].value.kind = "array"
    /\ Len(report_info["insured"].value.vals) = 2

\* Three insured names of two distinct values
C29_WitnessRepeated ==
    /\ Returned
    /\ "insured" \in DOMAIN report_info
    /\ Len(Occurrences("insured")) = 3
    /\ Len(report_info["insured"].line_refs) = 2

-----------------------------------------------------------------------------
(* Properties of the saves of the structuring routes.                      *)

MainSuffixes == {StructuredSuffix, StSuffix, DebugSuffix}

\* The main outputs stored
MainFiles == [s \in MainSuffixes \cap DOMAIN files |-> files[s]]

\* The step serves a structuring with a model_id
ServesModel ==
    /\ requests # <<>>
    /\ Head(requests).op = "POST"
    /\ HasModel(Head(requests).model_id)
    /\ requests' = Tail(requests)

\* A structuring with a model_id leaves the main outputs as they are
PerModelFrame == [][ServesModel => MainFiles' = MainFiles]_vars

\* The stored debug file holds the debug information of the stored items
DebugInStep ==
    DebugSuffix \in DOMAIN files =>
        /\ StructuredSuffix \in DOMAIN files
        /\ files[DebugSuffix] =
               DebugPayload(build_st_rows(files[StructuredSuffix].content).debug_info)

====
